---- MODULE Spec2Model ----
(***************************************************************************)
(* Model of the finance-tracker API server (server/src/index.ts): the      *)
(* persistent store (assumptions, bills, income, transactions), the wall   *)
(* clock, the write endpoints, and the two read handlers GET /api/forecast *)
(* and GET /api/summary together with their helper buildBillsPlanByMonth.  *)
(*                                                                         *)
(* Strings are sequences of one-character strings, so that formatting a    *)
(* month key and parsing it back are real computations.  A Date is a       *)
(* record [mi, day, sec]: mi = year*12 + (month-1), day = 1..31, sec =     *)
(* second of the day; all dates are UTC.                                   *)
(***************************************************************************)
EXTENDS Integers, Sequences, FiniteSets, TLC

VARIABLES
  assumptions,   \* table app.assumptions : set of rows (primary key user_id)
  bills,         \* table app.bills       : set of rows
  income,        \* table app.income      : set of rows
  transactions,  \* table app.transactions: set of rows
  now,           \* wall clock, as the month index of the current UTC month
  pc,            \* position of the read request in flight ("idle" when none)
  req,           \* the request: route, userId, query
  loc,           \* the handler's local variables
  res,           \* the response: status and body
  hist,          \* what the handler read from the store (observation only)
  call           \* direct application of buildBillsPlanByMonth: arguments and result

vars == <<assumptions, bills, income, transactions, now, pc, req, loc, res, hist, call>>
store == <<assumptions, bills, income, transactions>>

(***************************************************************************)
(* Bounds of the model.                                                    *)
(***************************************************************************)
MaxBills == 1
MaxIncome == 1
MaxTxn == 1
MaxTicks == 1
MaxPlanBills == 2
MaxPuts == 3
MaxSnapshots == 3

(***************************************************************************)
(* Program constants.                                                      *)
(***************************************************************************)
HorizonYear == 2027
HorizonMonth0 == 11

\* values that stand for "no row", an absent query parameter, a pending
\* result, SQL NULL / JS null, and no call
NoRow == [norow |-> TRUE]
Absent == <<"<absent>">>
Unread == [unread |-> TRUE]
NoCall == [nocall |-> TRUE]
NULL == [null |-> TRUE]

Max(a, b) == IF a >= b THEN a ELSE b

(***************************************************************************)
(* Strings.                                                                *)
(***************************************************************************)
Digits == <<"0", "1", "2", "3", "4", "5", "6", "7", "8", "9">>
IsDigit(c) == \E i \in 1..10 : Digits[i] = c
DigitVal(c) == (CHOOSE i \in 1..10 : Digits[i] = c) - 1

RECURSIVE DecStr(_)
\* `${n}` / String(n) for a non-negative integer
DecStr(n) == IF n < 10 THEN <<Digits[n + 1]>> ELSE DecStr(n \div 10) \o <<Digits[(n % 10) + 1]>>

RECURSIVE padStart(_, _, _)
padStart(s, len, fill) == IF Len(s) >= len THEN s ELSE padStart(<<fill>> \o s, len, fill)

RECURSIVE NumberOf(_)
\* Number(s) for a string of decimal digits
NumberOf(s) == IF Len(s) = 0 THEN 0
               ELSE NumberOf(SubSeq(s, 1, Len(s) - 1)) * 10 + DigitVal(s[Len(s)])

\* /^\d{4}-\d{2}$/.test(s)
MatchesYYYYMM(s) ==
  /\ Len(s) = 7
  /\ \A i \in {1, 2, 3, 4, 6, 7} : IsDigit(s[i])
  /\ s[5] = "-"

\* s.split('-').map(Number) for a string that matched the pattern
SplitParts(s) == <<NumberOf(SubSeq(s, 1, 4)), NumberOf(SubSeq(s, 6, 7))>>

(***************************************************************************)
(* Dates.                                                                  *)
(***************************************************************************)
IsLeap(y) == (y % 4 = 0 /\ y % 100 # 0) \/ y % 400 = 0
DaysInMonth(mi) ==
  LET m0 == mi % 12
      y == mi \div 12
  IN IF m0 = 1 THEN (IF IsLeap(y) THEN 29 ELSE 28)
     ELSE IF m0 \in {3, 5, 8, 10} THEN 30 ELSE 31

\* new Date(Date.UTC(y, m0, d, h, mi, s)) as the code calls it: m0 may be -1 or
\* 12 (the month index carries into the year), d is a valid day or 0 (the
\* last day of the previous month); Date.UTC reads a year 0..99 as 1900 + y
DateUTC(y, m0, d, s) ==
  LET yr == IF 0 <= y /\ y <= 99 THEN 1900 + y ELSE y
      mi == yr * 12 + m0
  IN IF d = 0 THEN [mi |-> mi - 1, day |-> DaysInMonth(mi - 1), sec |-> s]
     ELSE [mi |-> mi, day |-> d, sec |-> s]

getUTCFullYear(d) == d.mi \div 12
getUTCMonth(d) == d.mi % 12

\* d1 <= d2 on Date objects (comparison of the time values)
DateLE(d1, d2) ==
  \/ d1.mi < d2.mi
  \/ d1.mi = d2.mi /\ d1.day < d2.day
  \/ d1.mi = d2.mi /\ d1.day = d2.day /\ d1.sec <= d2.sec
DateLT(d1, d2) == DateLE(d1, d2) /\ d1 # d2

EndOfDaySec == 23 * 3600 + 59 * 60 + 59

\* variant: the month of the key is the zero-based getUTCMonth()
monthKeyUTC_ZeroBased(d) ==
  DecStr(getUTCFullYear(d)) \o <<"-">> \o padStart(DecStr(getUTCMonth(d)), 2, "0")

\* monthKeyUTC(d) and the forecast handler's toKey(d): the same template
monthKeyUTC(d) ==
  DecStr(getUTCFullYear(d)) \o <<"-">> \o padStart(DecStr(getUTCMonth(d) + 1), 2, "0")
toKey(d) ==
  DecStr(getUTCFullYear(d)) \o <<"-">> \o padStart(DecStr(getUTCMonth(d) + 1), 2, "0")

\* SQL to_char(date, 'YYYY-MM'): year padded to four digits
ToCharYYYYMM(d) ==
  padStart(DecStr(d.mi \div 12), 4, "0") \o <<"-">> \o padStart(DecStr((d.mi % 12) + 1), 2, "0")

\* new Date().toISOString().slice(0,7) when the clock shows month index n
IsoMonthOfNow(n) ==
  padStart(DecStr(n \div 12), 4, "0") \o <<"-">> \o padStart(DecStr((n % 12) + 1), 2, "0")

(***************************************************************************)
(* Maps (JS Map<string, number>) as functions; map.get(k) ?? 0.            *)
(***************************************************************************)
EmptyMap == [k \in {} |-> 0]
\* variant: a zero total is not stored
MapSet_SkipsZero(m, k, v) ==
  IF v = 0 THEN m ELSE [x \in (DOMAIN m) \cup {k} |-> IF x = k THEN v ELSE m[x]]

MapSet(m, k, v) == [x \in (DOMAIN m) \cup {k} |-> IF x = k THEN v ELSE m[x]]
MapGetOr0(m, k) == IF k \in DOMAIN m THEN m[k] ELSE 0

RECURSIVE SumCents(_)
\* sum of amount_cents over a set of rows
SumCents(rows) ==
  IF rows = {} THEN 0
  ELSE LET r == CHOOSE x \in rows : TRUE
       IN r.amount_cents + SumCents(rows \ {r})

(***************************************************************************)
(* buildBillsPlanByMonth                                                   *)
(***************************************************************************)
Cadences == {"weekly", "biweekly", "monthly", "quarterly", "annual", "once"}

RECURSIVE Pow2Floor(_)
\* the largest power of two that is <= n, for n >= 1
Pow2Floor(n) == IF n < 2 THEN 1 ELSE 2 * Pow2Floor(n \div 2)

\* Math.round(amt * factor[cadence]) in IEEE-754 double arithmetic, for the
\* five cadences that have a non-zero factor.  The factors are the doubles
\* nearest to 52/12, 26/12, 1, 1/3 and 1/12.  Math.round rounds a half up.
\* For weekly, quarterly and annual the double product rounds to the same
\* integer as the exact quotient.  The double 26/12 is 13/6 - 1/(3*2^51): when
\* amt*13/6 is exactly k + 1/2 (amt % 6 = 3) the product lies below the half
\* by amt/(3*2^51), and it is rounded back onto k + 1/2 only when that is at
\* most half a unit in the last place of k + 1/2, i.e. 4*amt <= 3*2^e with
\* 2^e <= k + 1/2 < 2^(e+1); otherwise the product stays below the half and
\* Math.round yields k.
MathRoundAmtTimesFactor(amt, cadence) ==
  CASE cadence = "monthly" -> amt
    [] cadence = "weekly" -> (26 * amt + 3) \div 6
    [] cadence = "quarterly" -> (2 * amt + 3) \div 6
    [] cadence = "annual" -> (amt + 6) \div 12
    [] cadence = "biweekly" ->
         IF amt % 6 = 3
         THEN LET k == (13 * amt) \div 6
              IN IF 4 * amt <= 3 * Pow2Floor(k) THEN k + 1 ELSE k
         ELSE (13 * amt + 3) \div 6

\* monthStart and monthEnd of the month the cursor is in (monthEnd is the
\* last day of the month at 23:59:59)
MonthStartOf(cursor) == DateUTC(getUTCFullYear(cursor), getUTCMonth(cursor), 1, 0)
MonthEndOf(cursor) == DateUTC(getUTCFullYear(cursor), getUTCMonth(cursor) + 1, 0, EndOfDaySec)

\* variant: the start date is compared with the first day of the month
Overlaps_StartVsMonthStart(b, monthStart, monthEnd) ==
  /\ (b.start_date = NULL \/ DateLE(b.start_date, monthStart))
  /\ (b.end_date = NULL \/ DateLE(monthStart, b.end_date))

\* the overlap test of one bill against one month
Overlaps(b, monthStart, monthEnd) ==
  LET startsBy == IF b.start_date = NULL THEN monthEnd ELSE b.start_date
      endsOn == IF b.end_date = NULL THEN monthEnd ELSE b.end_date
  IN /\ (b.start_date = NULL \/ DateLE(startsBy, monthEnd))
     /\ (b.end_date = NULL \/ DateLE(monthStart, endsOn))

\* variant: a one-off is counted in every month it overlaps
OnceCents_EveryActiveMonth(b, monthStart) == b.amount_cents

\* case 'once': the amount in the month of start_date only
OnceCents(b, monthStart) ==
  IF /\ b.start_date # NULL
     /\ getUTCFullYear(b.start_date) = getUTCFullYear(monthStart)
     /\ getUTCMonth(b.start_date) = getUTCMonth(monthStart)
  THEN b.amount_cents ELSE 0

\* variant: a cadence outside the enumeration adds nothing
BillCents_UnknownSkipped(b, monthStart, monthEnd) ==
  LET amt == b.amount_cents
  IN IF ~Overlaps(b, monthStart, monthEnd) THEN 0
     ELSE CASE b.cadence \in {"monthly", "weekly", "biweekly", "quarterly", "annual"} ->
                 MathRoundAmtTimesFactor(amt, b.cadence)
            [] b.cadence = "once" -> OnceCents(b, monthStart)
            [] OTHER -> 0

\* what one bill adds to `cents` in one iteration of the inner loop
BillCents(b, monthStart, monthEnd) ==
  LET amt == b.amount_cents
  IN IF ~Overlaps(b, monthStart, monthEnd) THEN 0
     ELSE CASE b.cadence \in {"monthly", "weekly", "biweekly", "quarterly", "annual"} ->
                 MathRoundAmtTimesFactor(amt, b.cadence)
            [] b.cadence = "once" -> OnceCents(b, monthStart)
            [] OTHER -> amt

RECURSIVE MonthCents(_, _, _)
\* the inner loop: the sum of BillCents over the bills that were read
MonthCents(bs, monthStart, monthEnd) ==
  IF bs = {} THEN 0
  ELSE LET b == CHOOSE x \in bs : TRUE
       IN BillCents(b, monthStart, monthEnd) + MonthCents(bs \ {b}, monthStart, monthEnd)

\* variant: the cursor advances by two months
NextMonth_SkipsOne(cursor) == DateUTC(getUTCFullYear(cursor), getUTCMonth(cursor) + 2, 1, 0)

\* cursor = first day of the month after the cursor's month
NextMonth(cursor) == DateUTC(getUTCFullYear(cursor), getUTCMonth(cursor) + 1, 1, 0)

RECURSIVE BuildPlanLoop(_, _, _, _)
\* the outer loop: while (cursor <= endIncl) { ...; plan.set(key, cents); cursor = next month }
BuildPlanLoop(bs, cursor, endIncl, plan) ==
  IF ~DateLE(cursor, endIncl) THEN plan
  ELSE BuildPlanLoop(bs, NextMonth(cursor), endIncl,
                     MapSet(plan, monthKeyUTC(cursor),
                            MonthCents(bs, MonthStartOf(cursor), MonthEndOf(cursor))))

\* the plan computed from the bills that findMany returned
buildBillsPlanByMonth(bs, first, endIncl) ==
  BuildPlanLoop(bs, DateUTC(getUTCFullYear(first), getUTCMonth(first), 1, 0), endIncl, EmptyMap)

\* variant: only the rows classified as bills are read
BillsFindMany_OnlyBills(userId) ==
  { [id |-> b.id, cadence |-> b.cadence, amount_cents |-> b.amount_cents,
     start_date |-> b.start_date, end_date |-> b.end_date] :
       b \in {x \in bills : x.user_id = userId /\ x.type = "bill"} }

\* prisma.bills.findMany({ where: { user_id }, select: {id, cadence, amount_cents, start_date, end_date} })
BillsFindMany(userId) ==
  { [id |-> b.id, cadence |-> b.cadence, amount_cents |-> b.amount_cents,
     start_date |-> b.start_date, end_date |-> b.end_date] : b \in {x \in bills : x.user_id = userId} }

(***************************************************************************)
(* Inputs of the requests.                                                 *)
(***************************************************************************)
Users == {"u1"}
D(y, m, d) == DateUTC(y, m - 1, d, 0)   \* a calendar date as the store returns it (midnight UTC)

\* PUT /api/settings/assumptions bodies: currentSavings in hundredths, asOfDate
AsOfDates == {D(2027, 11, 30)}
SavingsInputs == {10000}
\* POST /api/income and POST /api/transactions bodies: date, amount in hundredths
IncomeInputs == {[date |-> D(2027, 11, 5), amount |-> 2000]}
TxnInputs == {[date |-> D(2027, 11, 20), amount |-> 500], [date |-> D(2027, 12, 1), amount |-> 1500]}
\* POST /api/bills bodies
BillInputs ==
  {[amount_cents |-> 800, cadence |-> "monthly", type |-> "bill", due_day |-> NULL,
    start_date |-> NULL, end_date |-> NULL]}
\* ?start= of GET /api/forecast: absent, well formed (before the as-of month,
\* after it, after the horizon), month out of range, malformed
StartParams ==
  {Absent,
   <<"2", "0", "2", "7", "-", "1", "0">>,
   <<"2", "0", "2", "7", "-", "1", "2">>,
   <<"2", "0", "2", "8", "-", "0", "1">>,
   <<"2", "0", "2", "7", "-", "1", "3">>,
   <<"2", "0", "2", "7", "-", "0", "0">>,
   <<"2", "0", "2", "7", "-", "1">>}
\* ?month= of GET /api/summary
MonthParams ==
  {Absent,
   <<"2", "0", "2", "7", "-", "1", "1">>,
   <<"2", "0", "2", "7", "-", "1", "2">>,
   <<"2", "0", "2", "7", "-", "1", "3">>}
\* the message of the error a failing store call throws
StoreErrorMessages == {"", "Can't reach database server at db:5432"}

\* the month the clock shows when the server starts
NowInit == 2027 * 12 + 10

(***************************************************************************)
(* The store and its write endpoints.                                      *)
(***************************************************************************)
Ids(max) == 1..max
\* a fresh primary key (gen_random_uuid()): the smallest id not in the table
FreshId(table, max) == CHOOSE i \in Ids(max) : (i \notin {r.id : r \in table})
                                               /\ \A j \in Ids(max) : j < i => j \in {r.id : r \in table}

Idle == [route |-> "none"]

InitStore ==
  /\ assumptions = {}
  /\ bills = {}
  /\ income = {}
  /\ transactions = {}

Init ==
  /\ InitStore
  /\ now = NowInit
  /\ pc = "idle"
  /\ req = Idle
  /\ loc = Idle
  /\ res = Idle
  /\ hist = Idle
  /\ call = NoCall

\* variant: the row is created whether or not the user has one
AssumptionsUpsert_AlwaysCreates(table, u, cents, asOfDate, apr, inflation) ==
  table \cup {[user_id |-> u, current_savings_cents |-> cents, as_of_date |-> asOfDate,
               savings_apr |-> IF apr = NULL THEN 0 ELSE apr.value,
               inflation_pct |-> IF inflation = NULL THEN 0 ELSE inflation.value]}

\* prisma.assumptions.upsert({ where: { user_id }, update: {...}, create: {...} }):
\* the table after the call; apr and inflation are NULL when the body has
\* none, which leaves the stored value on update and is 0 on create
AssumptionsUpsert(table, u, cents, asOfDate, apr, inflation) ==
  LET existing == {r \in table : r.user_id = u}
  IN IF existing = {}
     THEN table \cup {[user_id |-> u, current_savings_cents |-> cents, as_of_date |-> asOfDate,
                       savings_apr |-> IF apr = NULL THEN 0 ELSE apr.value,
                       inflation_pct |-> IF inflation = NULL THEN 0 ELSE inflation.value]}
     ELSE (table \ existing) \cup
          {[user_id |-> u, current_savings_cents |-> cents, as_of_date |-> asOfDate,
            savings_apr |-> IF apr = NULL THEN r.savings_apr ELSE apr.value,
            inflation_pct |-> IF inflation = NULL THEN r.inflation_pct ELSE inflation.value] :
             r \in existing}

\* PUT /api/settings/assumptions: the handler is one store call
PutAssumptions(u, savings, asOfDate, apr, inflation) ==
  LET cents == savings   \* Math.round(currentSavings * 100), currentSavings = savings/100
  IN /\ assumptions' = AssumptionsUpsert(assumptions, u, cents, asOfDate, apr, inflation)
     /\ UNCHANGED <<bills, income, transactions, now, pc, req, loc, res, hist, call>>

\* POST /api/income
PostIncome(u, body) ==
  /\ Cardinality(income) < MaxIncome
  /\ income' = income \cup {[id |-> FreshId(income, MaxIncome), user_id |-> u, date |-> body.date,
                              amount_cents |-> body.amount]}
  /\ UNCHANGED <<assumptions, bills, transactions, now, pc, req, loc, res, hist, call>>

\* variant: the row is matched by its id alone
DeleteMany_AnyOwner(table, id, u) ==
  [rows |-> {r \in table : r.id # id},
   count |-> Cardinality({r \in table : r.id = id})]

\* prisma.<table>.deleteMany({ where: { id, user_id } }): the table afterwards
\* and the number of rows deleted
DeleteMany(table, id, u) ==
  [rows |-> {r \in table : ~(r.id = id /\ r.user_id = u)},
   count |-> Cardinality({r \in table : r.id = id /\ r.user_id = u})]

\* DELETE /api/income/:id
DeleteIncome(u, id) ==
  /\ income' = DeleteMany(income, id, u).rows
  /\ UNCHANGED <<assumptions, bills, transactions, now, pc, req, loc, res, hist, call>>

\* POST /api/transactions
PostTransaction(u, body) ==
  /\ Cardinality(transactions) < MaxTxn
  /\ transactions' = transactions \cup {[id |-> FreshId(transactions, MaxTxn), user_id |-> u,
                                          date |-> body.date, amount_cents |-> body.amount]}
  /\ UNCHANGED <<assumptions, bills, income, now, pc, req, loc, res, hist, call>>

\* DELETE /api/transactions/:id
DeleteTransaction(u, id) ==
  /\ transactions' = DeleteMany(transactions, id, u).rows
  /\ UNCHANGED <<assumptions, bills, income, now, pc, req, loc, res, hist, call>>

\* prisma.bills.create({ data: { user_id, ...d } }): the row the store adds
BillsCreateRow(table, u, d) ==
  [id |-> FreshId(table, MaxBills), user_id |-> u,
   amount_cents |-> d.amount_cents, cadence |-> d.cadence,
   type |-> d.type, due_day |-> d.due_day,
   start_date |-> d.start_date, end_date |-> d.end_date]

\* POST /api/bills with a body that billCreateSchema has parsed
PostBill(u, body) ==
  /\ Cardinality(bills) < MaxBills
  /\ bills' = bills \cup {BillsCreateRow(bills, u, body)}
  /\ UNCHANGED <<assumptions, income, transactions, now, pc, req, loc, res, hist, call>>

\* DELETE /api/bills/:id
DeleteBill(u, id) ==
  /\ bills' = DeleteMany(bills, id, u).rows
  /\ UNCHANGED <<assumptions, income, transactions, now, pc, req, loc, res, hist, call>>

\* PATCH /api/bills/:id { type }.  The read handlers never select `type`
\* (BillsFindMany), so this write is kept out of Writes, whose behaviours
\* it would only duplicate.
PatchBill(u, id, type) ==
  /\ type \in {"bill", "subscription"}
  /\ bills' = {IF b.id = id /\ b.user_id = u THEN [b EXCEPT !.type = type] ELSE b : b \in bills}
  /\ UNCHANGED <<assumptions, income, transactions, now, pc, req, loc, res, hist, call>>

\* the wall clock passes into the next month.  The fold of the forecast is
\* synchronous and a few dozen iterations long: the clock crosses at most one
\* month boundary between its first and its last reading (hist.foldNow is the
\* month the clock showed when the fold began).
Tick ==
  /\ now < NowInit + MaxTicks
  /\ pc = "f_loop" => now = hist.foldNow
  /\ now' = now + 1
  /\ UNCHANGED <<assumptions, bills, income, transactions, pc, req, loc, res, hist, call>>

(***************************************************************************)
(* GET /api/forecast                                                       *)
(***************************************************************************)
\* observation of a read: the totals of the user's rows of a table, per month index
TotalsByMonth(table, userId) ==
  LET mine == {r \in table : r.user_id = userId}
  IN [m \in {r.date.mi : r \in mine} |-> SumCents({r \in mine : r.date.mi = m})]

\* variant: the rows of every user are summed
SumByMonthQuery_AllUsers(table, userId) ==
  {[month_key |-> k, cents |-> SumCents({r \in table : ToCharYYYYMM(r.date) = k})] :
     k \in {ToCharYYYYMM(r.date) : r \in table}}

\* SELECT to_char(date,'YYYY-MM') AS month_key, SUM(amount_cents) AS cents
\*   FROM <table> WHERE user_id = userId GROUP BY 1
SumByMonthQuery(table, userId) ==
  LET mine == {r \in table : r.user_id = userId}
  IN {[month_key |-> k, cents |-> SumCents({r \in mine : ToCharYYYYMM(r.date) = k})] :
        k \in {ToCharYYYYMM(r.date) : r \in mine}}

RECURSIVE RowsToMap(_)
\* for (const r of rows) map.set(r.month_key, Number(r.cents))
RowsToMap(rows) ==
  IF rows = {} THEN EmptyMap
  ELSE LET r == CHOOSE x \in rows : TRUE
       IN MapSet(RowsToMap(rows \ {r}), r.month_key, r.cents)

\* variant: the month argument taken as 1-based
HorizonEnd_OneBased == DateUTC(HorizonYear, HorizonMonth0 + 1, 1, 0)

\* const end = new Date(Date.UTC(2027, 11, 1))
HorizonEnd == DateUTC(HorizonYear, HorizonMonth0, 1, 0)

\* const asOf = first day of the month of a.as_of_date
AsOfMonth(a) == DateUTC(getUTCFullYear(a.as_of_date), getUTCMonth(a.as_of_date), 1, 0)

\* const requested = new Date(Date.UTC(startParts[0], startParts[1]-1, 1))
RequestedMonth(startKey) == DateUTC(SplitParts(startKey)[1], SplitParts(startKey)[2] - 1, 1, 0)

\* variant: the requested month is used unclamped
FirstMonth_NoClamp(requested, asOf) == requested

\* const first = requested < asOf ? asOf : requested
FirstMonth(requested, asOf) == IF DateLT(requested, asOf) THEN asOf ELSE requested

\* variant: the month is classified against the clock read when the request arrived
IsPastMonth_AtArrival(cursor, nowMi) ==
  \/ getUTCFullYear(cursor) < req.nowAtStart \div 12
  \/ getUTCFullYear(cursor) = req.nowAtStart \div 12 /\ getUTCMonth(cursor) < req.nowAtStart % 12

\* variant: the current month counts as past
IsPastMonth_IncludesCurrent(cursor, nowMi) ==
  \/ getUTCFullYear(cursor) < nowMi \div 12
  \/ getUTCFullYear(cursor) = nowMi \div 12 /\ getUTCMonth(cursor) <= nowMi % 12

\* variant: every month but the current one counts as past
IsPastMonth_NotCurrent(cursor, nowMi) ==
  \/ getUTCFullYear(cursor) # nowMi \div 12
  \/ getUTCMonth(cursor) # nowMi % 12

\* isPastMonth, with `now` the month the clock shows
IsPastMonth(cursor, nowMi) ==
  \/ getUTCFullYear(cursor) < nowMi \div 12
  \/ getUTCFullYear(cursor) = nowMi \div 12 /\ getUTCMonth(cursor) < nowMi % 12

\* variant: the planned bills are a minimum in past months too
ChooseSpend_AlwaysMax(isPastMonth, actualSpend, plannedBills) == Max(actualSpend, plannedBills)

\* const spend = isPastMonth ? actualSpend : Math.max(actualSpend, plannedBills)
ChooseSpend(isPastMonth, actualSpend, plannedBills) ==
  IF isPastMonth THEN actualSpend ELSE Max(actualSpend, plannedBills)

\* variant: running = net
AddNet_Overwrites(running, net) == net

\* running += net
AddNet(running, net) == running + net

\* the row the table holds for the user, NoRow when it holds none
StoredAssumptions(userId) ==
  IF \E r \in assumptions : r.user_id = userId
  THEN CHOOSE r \in assumptions : r.user_id = userId
  ELSE NoRow

\* variant: a missing row is read as a zero baseline as of the epoch
FindUniqueAssumptions_ZeroDefault(userId) ==
  IF StoredAssumptions(userId) = NoRow
  THEN [user_id |-> userId, current_savings_cents |-> 0, as_of_date |-> DateUTC(1970, 0, 1, 0),
        savings_apr |-> 0, inflation_pct |-> 0]
  ELSE StoredAssumptions(userId)

\* prisma.assumptions.findUnique({ where: { user_id } })
FindUniqueAssumptions(userId) == StoredAssumptions(userId)

ErrorResponse(status, message) == [status |-> status, body |-> [error |-> message]]

\* the handler up to its first await: the start key and its pattern test
ForecastBegin(u, start) ==
  /\ pc \in {"idle", "done"}
  /\ LET startKey == IF start = Absent \/ start = <<>> THEN IsoMonthOfNow(now) ELSE start
     IN /\ req' = [route |-> "forecast", userId |-> u, start |-> start, nowAtStart |-> now]
        /\ loc' = [startKey |-> startKey]
        /\ hist' = [reads |-> 0, failed |-> FALSE]
        /\ IF ~MatchesYYYYMM(startKey)
           THEN /\ res' = ErrorResponse(400, "start must be YYYY-MM")
                /\ pc' = "done"
           ELSE /\ res' = Idle
                /\ pc' = "f_assumptions"
  /\ UNCHANGED <<store, now, call>>

\* await prisma.assumptions.findUnique, then the computation of first and end
ForecastReadAssumptions ==
  /\ pc = "f_assumptions"
  /\ LET a == FindUniqueAssumptions(req.userId)
     IN /\ hist' = [reads |-> hist.reads + 1, failed |-> FALSE, assumptions |-> StoredAssumptions(req.userId)]
        /\ IF a = NoRow
           THEN /\ loc' = [startKey |-> loc.startKey, a |-> NoRow]
                /\ res' = ErrorResponse(400, "Set assumptions first (current savings & as_of_date).")
                /\ pc' = "done"
           ELSE /\ loc' = [startKey |-> loc.startKey, a |-> a,
                           first |-> FirstMonth(RequestedMonth(loc.startKey), AsOfMonth(a)),
                           end |-> HorizonEnd]
                /\ res' = res
                /\ pc' = "f_income"
  /\ UNCHANGED <<store, now, req, call>>

\* variant: the rows that were summed are removed from the table
ForecastReadIncome_Consumes ==
  /\ pc = "f_income"
  /\ loc' = [startKey |-> loc.startKey, a |-> loc.a, first |-> loc.first, end |-> loc.end,
             incRows |-> SumByMonthQuery(income, req.userId)]
  /\ hist' = [reads |-> hist.reads + 1, failed |-> FALSE, assumptions |-> hist.assumptions,
              income |-> TotalsByMonth(income, req.userId)]
  /\ pc' = "f_spend"
  /\ income' = {r \in income : r.user_id # req.userId}
  /\ UNCHANGED <<assumptions, bills, transactions, now, req, res, call>>

\* await prisma.$queryRaw: income totals per month
ForecastReadIncome ==
  /\ pc = "f_income"
  /\ loc' = [startKey |-> loc.startKey, a |-> loc.a, first |-> loc.first, end |-> loc.end,
             incRows |-> SumByMonthQuery(income, req.userId)]
  /\ hist' = [reads |-> hist.reads + 1, failed |-> FALSE, assumptions |-> hist.assumptions,
              income |-> TotalsByMonth(income, req.userId)]
  /\ pc' = "f_spend"
  /\ UNCHANGED <<store, now, req, res, call>>

\* await prisma.$queryRaw: spending totals per month, then the two maps
ForecastReadSpend ==
  /\ pc = "f_spend"
  /\ loc' = [startKey |-> loc.startKey, a |-> loc.a, first |-> loc.first, end |-> loc.end,
             incomeByMonth |-> RowsToMap(loc.incRows),
             spendByMonth |-> RowsToMap(SumByMonthQuery(transactions, req.userId))]
  /\ hist' = [reads |-> hist.reads + 1, failed |-> FALSE, assumptions |-> hist.assumptions,
              income |-> hist.income,
              transactions |-> TotalsByMonth(transactions, req.userId)]
  /\ pc' = "f_bills"
  /\ UNCHANGED <<store, now, req, res, call>>

\* variant: the fold starts from the baseline plus a month of interest at savings_apr
ForecastReadBills_AppliesApr ==
  /\ pc = "f_bills"
  /\ loc' = [startKey |-> loc.startKey, a |-> loc.a, first |-> loc.first, end |-> loc.end,
             incomeByMonth |-> loc.incomeByMonth, spendByMonth |-> loc.spendByMonth,
             billsPlanByMonth |-> buildBillsPlanByMonth(BillsFindMany(req.userId), loc.first, loc.end),
             out |-> <<>>,
             running |-> loc.a.current_savings_cents
                         + (loc.a.current_savings_cents * loc.a.savings_apr) \div 1200,
             cursor |-> DateUTC(getUTCFullYear(loc.first), getUTCMonth(loc.first), 1, 0),
             debugRows |-> <<>>]
  /\ hist' = [hist EXCEPT !.reads = @ + 1] @@ [foldNow |-> now]
  /\ pc' = "f_loop"
  /\ UNCHANGED <<store, now, req, res, call>>

\* await buildBillsPlanByMonth(userId, first, end), then the initialisation of the fold
ForecastReadBills ==
  /\ pc = "f_bills"
  /\ loc' = [startKey |-> loc.startKey, a |-> loc.a, first |-> loc.first, end |-> loc.end,
             incomeByMonth |-> loc.incomeByMonth, spendByMonth |-> loc.spendByMonth,
             billsPlanByMonth |-> buildBillsPlanByMonth(BillsFindMany(req.userId), loc.first, loc.end),
             out |-> <<>>,
             running |-> loc.a.current_savings_cents,
             cursor |-> DateUTC(getUTCFullYear(loc.first), getUTCMonth(loc.first), 1, 0),
             debugRows |-> <<>>]
  /\ hist' = [hist EXCEPT !.reads = @ + 1] @@ [foldNow |-> now]
  /\ pc' = "f_loop"
  /\ UNCHANGED <<store, now, req, res, call>>

\* one iteration of while (cursor <= end), reading the clock; res.json(out) when the loop ends
ForecastLoop ==
  /\ pc = "f_loop"
  /\ IF DateLE(loc.cursor, loc.end)
     THEN LET key == toKey(loc.cursor)
              inc == MapGetOr0(loc.incomeByMonth, key)
              actualSpend == MapGetOr0(loc.spendByMonth, key)
              plannedBills == MapGetOr0(loc.billsPlanByMonth, key)
              isPastMonth == IsPastMonth(loc.cursor, now)
              spend == ChooseSpend(isPastMonth, actualSpend, plannedBills)
              net == inc - spend
              running == AddNet(loc.running, net)
          IN /\ loc' = [loc EXCEPT
                          !.running = running,
                          !.out = Append(@, [month_key |-> key, net_change_cents |-> net,
                                             savings_cents |-> running]),
                          !.debugRows = Append(@, [key |-> key, isPastMonth |-> isPastMonth, inc |-> inc,
                                                   actualSpend |-> actualSpend,
                                                   plannedBills |-> plannedBills,
                                                   chosenSpend |-> spend, net |-> net, now |-> now]),
                          !.cursor = NextMonth(loc.cursor)]
             /\ UNCHANGED <<pc, res>>
     ELSE /\ res' = [status |-> 200, body |-> loc.out]
          /\ pc' = "done"
          /\ loc' = loc
  /\ UNCHANGED <<store, now, req, hist, call>>

\* a store call of the forecast handler throws: catch (e) { res.status(500).json(...) }
ForecastStoreError(message) ==
  /\ pc \in {"f_assumptions", "f_income", "f_spend", "f_bills"}
  /\ hist' = [hist EXCEPT !.reads = @ + 1, !.failed = TRUE] @@ [message |-> message]
  /\ res' = ErrorResponse(500, "Failed to build forecast")
  /\ pc' = "done"
  /\ UNCHANGED <<store, now, req, loc, call>>

(***************************************************************************)
(* GET /api/summary                                                        *)
(***************************************************************************)
\* monthRange(yyyyMm): the range, or the status-400 error it throws
monthRange(yyyyMm) ==
  IF ~MatchesYYYYMM(yyyyMm) THEN [throws |-> TRUE, status |-> 400, message |-> "Invalid month. Use YYYY-MM."]
  ELSE LET y == SplitParts(yyyyMm)[1]
           m == SplitParts(yyyyMm)[2]
       IN IF m < 1 \/ m > 12
          THEN [throws |-> TRUE, status |-> 400, message |-> "Invalid month. Use YYYY-MM."]
          ELSE [throws |-> FALSE,
                start |-> DateUTC(y, m - 1, 1, 0),
                end |-> DateUTC(IF m = 12 THEN y + 1 ELSE y, IF m = 12 THEN 0 ELSE m, 1, 0)]

\* variant: the first day of the next month is inside the range (lte)
AggregateSum_InclusiveEnd(table, userId, start, end) ==
  LET rows == {r \in table : r.user_id = userId /\ DateLE(start, r.date) /\ DateLE(r.date, end)}
  IN [_sum |-> IF rows = {} THEN NULL ELSE [null |-> FALSE, value |-> SumCents(rows)]]

\* prisma.<table>.aggregate({ _sum: { amount_cents }, where: { user_id, date: { gte: start, lt: end } } })
AggregateSum(table, userId, start, end) ==
  LET rows == {r \in table : r.user_id = userId /\ DateLE(start, r.date) /\ DateLT(r.date, end)}
  IN [_sum |-> IF rows = {} THEN NULL ELSE [null |-> FALSE, value |-> SumCents(rows)]]

\* Number(x ?? 0) for an aggregate that is null when no row matched
NullishOr0(x) == IF x = NULL THEN 0 ELSE x.value

\* catch (e) of the summary handler
SummaryCatch(e) ==
  [status |-> IF "status" \in DOMAIN e THEN e.status ELSE 500,
   body |-> [error |-> IF e.message # "" THEN e.message ELSE "Failed to load summary"]]

\* variant: the summary looks the Assumptions up first and refuses without them
SummaryBegin_RequiresAssumptions(u, monthParam) ==
  /\ pc \in {"idle", "done"}
  /\ LET month == IF monthParam = Absent THEN <<>> ELSE monthParam
         r == monthRange(month)
     IN /\ req' = [route |-> "summary", userId |-> u, month |-> month, nowAtStart |-> now]
        /\ hist' = [reads |-> 1, failed |-> FALSE, assumptions |-> StoredAssumptions(u)]
        /\ IF r.throws
           THEN /\ res' = SummaryCatch(r)
                /\ loc' = [month |-> month]
                /\ pc' = "done"
           ELSE IF StoredAssumptions(u) = NoRow
           THEN /\ res' = ErrorResponse(400, "Set assumptions first (current savings & as_of_date).")
                /\ loc' = [month |-> month]
                /\ pc' = "done"
           ELSE /\ res' = Idle
                /\ loc' = [month |-> month, start |-> r.start, end |-> r.end,
                           endOfMonth |-> DateUTC(getUTCFullYear(r.start), getUTCMonth(r.start) + 1, 0,
                                                  EndOfDaySec),
                           incAgg |-> Unread, spendAgg |-> Unread]
                /\ pc' = "s_agg"
  /\ UNCHANGED <<store, now, call>>

\* the handler up to its first await: monthRange, endOfMonth, and the two aggregates are issued
SummaryBegin(u, monthParam) ==
  /\ pc \in {"idle", "done"}
  /\ LET month == IF monthParam = Absent THEN <<>> ELSE monthParam
         r == monthRange(month)
     IN /\ req' = [route |-> "summary", userId |-> u, month |-> month, nowAtStart |-> now]
        /\ hist' = [reads |-> 0, failed |-> FALSE]
        /\ IF r.throws
           THEN /\ res' = SummaryCatch(r)
                /\ loc' = [month |-> month]
                /\ pc' = "done"
           ELSE /\ res' = Idle
                /\ loc' = [month |-> month, start |-> r.start, end |-> r.end,
                           endOfMonth |-> DateUTC(getUTCFullYear(r.start), getUTCMonth(r.start) + 1, 0,
                                                  EndOfDaySec),
                           incAgg |-> Unread, spendAgg |-> Unread]
                /\ pc' = "s_agg"
  /\ UNCHANGED <<store, now, call>>

\* the income aggregate of the Promise.all completes
SummaryAggIncome ==
  /\ pc = "s_agg"
  /\ loc.incAgg = Unread
  /\ loc' = [loc EXCEPT !.incAgg = AggregateSum(income, req.userId, loc.start, loc.end)]
  /\ hist' = [hist EXCEPT !.reads = @ + 1] @@ [income |-> TotalsByMonth(income, req.userId)]
  /\ pc' = IF loc.spendAgg # Unread THEN "s_bills" ELSE "s_agg"
  /\ UNCHANGED <<store, now, req, res, call>>

\* the spending aggregate of the Promise.all completes
SummaryAggSpend ==
  /\ pc = "s_agg"
  /\ loc.spendAgg = Unread
  /\ loc' = [loc EXCEPT !.spendAgg = AggregateSum(transactions, req.userId, loc.start, loc.end)]
  /\ hist' = [hist EXCEPT !.reads = @ + 1] @@ [transactions |-> TotalsByMonth(transactions, req.userId)]
  /\ pc' = IF loc.incAgg # Unread THEN "s_bills" ELSE "s_agg"
  /\ UNCHANGED <<store, now, req, res, call>>

\* await buildBillsPlanByMonth(userId, start, endOfMonth), then the payload
SummaryReadBills ==
  /\ pc = "s_bills"
  /\ LET billsPlanByMonth == buildBillsPlanByMonth(BillsFindMany(req.userId), loc.start, loc.endOfMonth)
         incomeCents == NullishOr0(loc.incAgg._sum)
         actualSpendCents == NullishOr0(loc.spendAgg._sum)
         key == toKey(loc.start)
         plannedBillsCents == MapGetOr0(billsPlanByMonth, key)
         isPastMonth == IsPastMonth(loc.start, now)
         spendingCents == ChooseSpend(isPastMonth, actualSpendCents, plannedBillsCents)
     IN /\ loc' = loc @@ [billsPlanByMonth |-> billsPlanByMonth, key |-> key,
                          actualSpendCents |-> actualSpendCents,
                          plannedBillsCents |-> plannedBillsCents,
                          isPastMonth |-> isPastMonth, now |-> now]
        \* income, spending and net are cents / 100; the body holds the numerators
        /\ res' = [status |-> 200,
                   body |-> [month |-> loc.month, income100 |-> incomeCents,
                             spending100 |-> spendingCents, net100 |-> incomeCents - spendingCents]]
  /\ hist' = [hist EXCEPT !.reads = @ + 1]
  /\ pc' = "done"
  /\ UNCHANGED <<store, now, req, call>>

\* a store call of the summary handler throws an error with this message
SummaryStoreError(message) ==
  /\ pc \in {"s_agg", "s_bills"}
  /\ hist' = [hist EXCEPT !.reads = @ + 1, !.failed = TRUE] @@ [message |-> message]
  /\ res' = SummaryCatch([message |-> message])
  /\ pc' = "done"
  /\ UNCHANGED <<store, now, req, loc, call>>

(***************************************************************************)
(* The server: writes, clock and one read request at a time.               *)
(***************************************************************************)
\* A write handler is one store call.  The handlers run on one event loop, so
\* no write handler runs inside the synchronous tail of a read handler (the
\* fold after its last await); a finished exchange is kept until the next
\* request begins, and a request reads nothing from the store before its
\* first await, so a write after a response is the same as that write after
\* the next request has begun.
WritesMayRun == pc \notin {"f_loop", "done"}

Writes ==
  /\ WritesMayRun
  /\ \/ \E u \in Users, s \in SavingsInputs, d \in AsOfDates : PutAssumptions(u, s, d, NULL, NULL)
     \/ \E u \in Users, b \in IncomeInputs : PostIncome(u, b)
     \/ \E u \in Users, i \in Ids(MaxIncome) : DeleteIncome(u, i)
     \/ \E u \in Users, b \in TxnInputs : PostTransaction(u, b)
     \/ \E u \in Users, i \in Ids(MaxTxn) : DeleteTransaction(u, i)
     \/ \E u \in Users, b \in BillInputs : PostBill(u, b)
     \/ \E u \in Users, i \in Ids(MaxBills) : DeleteBill(u, i)

Forecast ==
  \/ \E u \in Users, q \in StartParams : ForecastBegin(u, q)
  \/ ForecastReadAssumptions
  \/ ForecastReadIncome
  \/ ForecastReadSpend
  \/ ForecastReadBills
  \/ ForecastLoop
  \/ \E m \in StoreErrorMessages : ForecastStoreError(m)

Summary ==
  \/ \E u \in Users, q \in MonthParams : SummaryBegin(u, q)
  \/ SummaryAggIncome
  \/ SummaryAggSpend
  \/ SummaryReadBills
  \/ \E m \in StoreErrorMessages : SummaryStoreError(m)

Next == Writes \/ Tick \/ Forecast \/ Summary

Spec == Init /\ [][Next]_vars

(***************************************************************************)
(* buildBillsPlanByMonth applied directly to a store of bills.             *)
(***************************************************************************)
PlanAmounts == {27, 1200}
PlanWindows ==
  {[start_date |-> NULL, end_date |-> NULL],
   [start_date |-> D(2025, 6, 10), end_date |-> D(2025, 6, 20)],
   [start_date |-> D(2025, 5, 31), end_date |-> NULL],
   [start_date |-> NULL, end_date |-> D(2025, 7, 1)],
   [start_date |-> D(2025, 6, 10), end_date |-> D(2025, 5, 20)]}
PlanBillInputs ==
  {[amount_cents |-> a, cadence |-> c, type |-> "bill", due_day |-> NULL, start_date |-> w.start_date,
    end_date |-> w.end_date] : a \in PlanAmounts, c \in Cadences, w \in PlanWindows}
\* the (first, endIncl) pairs of the calls: a three-month range as the forecast
\* passes it (first days of months), a one-month range as the summary
\* passes it (start, end of month), and a range between two days inside months
PlanRanges ==
  {[first |-> D(2025, 5, 1), endIncl |-> D(2025, 7, 1)],
   [first |-> D(2025, 6, 1), endIncl |-> DateUTC(2025, 6, 0, EndOfDaySec)],
   [first |-> D(2025, 5, 20), endIncl |-> D(2025, 6, 5)]}

\* the bills table after POST /api/bills of the bodies bs[1], ..., bs[n] by user u
BillsPosted(u, bs) ==
  {[id |-> i, user_id |-> u, amount_cents |-> bs[i].amount_cents, cadence |-> bs[i].cadence,
    type |-> bs[i].type, due_day |-> bs[i].due_day, start_date |-> bs[i].start_date,
    end_date |-> bs[i].end_date] :
     i \in 1..Len(bs)}

InitPlan ==
  /\ assumptions = {}
  /\ \E n \in 0..MaxPlanBills : \E bs \in [1..n -> PlanBillInputs] : bills = BillsPosted("u1", bs)
  /\ income = {}
  /\ transactions = {}
  /\ now = NowInit
  /\ pc = "idle"
  /\ req = Idle
  /\ loc = Idle
  /\ res = Idle
  /\ hist = Idle
  /\ call = NoCall

\* const plan = await buildBillsPlanByMonth(userId, first, endIncl)
CallBuildBillsPlan(u, first, endIncl) ==
  /\ call' = [userId |-> u, first |-> first, endIncl |-> endIncl, bills |-> BillsFindMany(u),
              ret |-> buildBillsPlanByMonth(BillsFindMany(u), first, endIncl)]
  /\ UNCHANGED <<store, now, pc, req, loc, res, hist>>

NextPlan == \E u \in Users, r \in PlanRanges : CallBuildBillsPlan(u, r.first, r.endIncl)

SpecPlan == InitPlan /\ [][NextPlan]_vars

(***************************************************************************)
(* Concurrent PUT /api/settings/assumptions requests of two users.  A      *)
(* request is in flight from its receipt until its upsert returns; the     *)
(* upserts of the requests in flight run in any order.  Here req is the    *)
(* set of requests in flight, loc the number of requests received, and     *)
(* hist the PUT whose upsert ran last, per user.                           *)
(***************************************************************************)
PutUsers == {"u1", "u2"}
\* request bodies: currentSavings in hundredths, asOfDate, apr
PutBodies ==
  {[savings |-> v, asOfDate |-> d, apr |-> a] :
     v \in {10000, 25050}, d \in {D(2027, 11, 30), D(2027, 12, 1)}, a \in {NULL, [null |-> FALSE, value |-> 5]}}

InitPut ==
  /\ InitStore
  /\ now = NowInit
  /\ pc = "idle"
  /\ req = {}
  /\ loc = 0
  /\ res = Idle
  /\ hist = [u \in PutUsers |-> NoCall]
  /\ call = NoCall

\* the handler up to its await: the body is parsed, cents and asOf are computed
PutReceive(u, body) ==
  /\ loc < MaxPuts
  /\ loc' = loc + 1
  /\ req' = req \cup {[n |-> loc + 1, userId |-> u, cents |-> body.savings,
                        asOf |-> body.asOfDate, apr |-> body.apr, inflation |-> NULL]}
  /\ UNCHANGED <<store, now, pc, res, hist, call>>

\* await prisma.assumptions.upsert(...) of one request in flight returns the row
PutUpsertReturns(r) ==
  /\ r \in req
  /\ assumptions' = AssumptionsUpsert(assumptions, r.userId, r.cents, r.asOf, r.apr, r.inflation)
  /\ req' = req \ {r}
  /\ hist' = [hist EXCEPT ![r.userId] = r]
  /\ UNCHANGED <<bills, income, transactions, now, pc, loc, res, call>>

\* the upsert of one request in flight throws: nothing is written
PutUpsertThrows(r) ==
  /\ r \in req
  /\ req' = req \ {r}
  /\ UNCHANGED <<store, now, pc, loc, res, hist, call>>

NextPut ==
  \/ \E u \in PutUsers, b \in PutBodies : PutReceive(u, b)
  \/ \E r \in req : PutUpsertReturns(r)
  \/ \E r \in req : PutUpsertThrows(r)

SpecPut == InitPut /\ [][NextPut]_vars

(***************************************************************************)
(* Read requests one after the other over the stores of two users that     *)
(* hold the same rows and differ in savings_apr and inflation_pct.  Between *)
(* and during the requests the clock advances and bills are reclassified.  *)
(* Here call is the last successful exchange the client has received.      *)
(***************************************************************************)
RunUsers == {"u1", "u2"}
RunStartParams == {Absent, <<"2", "0", "2", "7", "-", "1", "0">>}
RunMonthParams == {<<"2", "0", "2", "7", "-", "1", "1">>, <<"2", "0", "2", "7", "-", "1", "2">>}

\* the store after each user has PUT Assumptions and POSTed one income row,
\* the transaction t and one monthly bill
InitRuns ==
  /\ assumptions =
       AssumptionsUpsert(
         AssumptionsUpsert({}, "u1", 10000, D(2027, 11, 30), NULL, NULL),
         "u2", 10000, D(2027, 11, 30), [null |-> FALSE, value |-> 5], [null |-> FALSE, value |-> 3])
  /\ income = {[id |-> 1, user_id |-> "u1", date |-> D(2027, 11, 5), amount_cents |-> 2000],
               [id |-> 2, user_id |-> "u2", date |-> D(2027, 11, 5), amount_cents |-> 2000]}
  /\ \E t \in TxnInputs :
       transactions = {[id |-> 1, user_id |-> "u1", date |-> t.date, amount_cents |-> t.amount],
                       [id |-> 2, user_id |-> "u2", date |-> t.date, amount_cents |-> t.amount]}
  /\ bills = {[id |-> 1, user_id |-> "u1", amount_cents |-> 800, cadence |-> "monthly",
                type |-> "bill", due_day |-> 15, start_date |-> NULL, end_date |-> NULL],
               [id |-> 2, user_id |-> "u2", amount_cents |-> 800, cadence |-> "monthly",
                type |-> "bill", due_day |-> 15, start_date |-> NULL, end_date |-> NULL]}
  /\ now = NowInit
  /\ pc = "idle"
  /\ req = Idle
  /\ loc = Idle
  /\ res = Idle
  /\ hist = Idle
  /\ call = NoCall

\* res.json(out) / res.json(payload): the client keeps the response it received,
\* with what the request was, what the handler used and the store of that moment
KeepExchange ==
  /\ pc = "done"
  /\ res.status = 200
  /\ call' = [route |-> req.route, userId |-> req.userId,
              param |-> IF req.route = "forecast" THEN req.start ELSE req.month,
              nowAtStart |-> req.nowAtStart,
              body |-> res.body,
              rows |-> IF req.route = "forecast" THEN loc.debugRows
                       ELSE <<[now |-> loc.now, chosenSpend |-> res.body.spending100]>>,
              bills |-> {b \in bills : b.user_id = req.userId},
              store |-> store]
  /\ UNCHANGED <<store, now, pc, req, loc, res, hist>>

NextRuns ==
  \/ \E u \in RunUsers, q \in RunStartParams : ForecastBegin(u, q)
  \/ ForecastReadAssumptions
  \/ ForecastReadIncome
  \/ ForecastReadSpend
  \/ ForecastReadBills
  \/ ForecastLoop
  \/ \E u \in RunUsers, q \in RunMonthParams : SummaryBegin(u, q)
  \/ SummaryAggIncome
  \/ SummaryAggSpend
  \/ SummaryReadBills
  \/ Tick
  \/ WritesMayRun /\ \E b \in bills, t \in {"bill", "subscription"} : PatchBill(b.user_id, b.id, t)
  \/ KeepExchange

SpecRuns == InitRuns /\ [][NextRuns]_vars


(***************************************************************************)
(* The bills endpoints with their validation: POST /api/bills parses the   *)
(* raw body with billCreateSchema, PATCH /api/bills/:id changes the type,  *)
(* DELETE /api/bills/:id removes the row.  A JSON number of a raw body is  *)
(* written in thousandths (12340 is 12.34), an optional field is NULL or   *)
(* Some(value).                                                            *)
(***************************************************************************)
Some(v) == [null |-> FALSE, value |-> v]

\* the amounts below 2 with three decimals ending in 5 whose double, times
\* 100, falls below the half (1.005 * 100 is 100.49999999999999)
HalfFallsBelow == {145, 285, 565, 575, 1005, 1015, 1025, 1035, 1255, 1265, 1275}

\* Math.round(amount * 100) for the amount v/1000, v < 2000 or not ending in 5
MathRoundAmountTimes100(v) ==
  IF v >= 0 /\ v % 10 = 5 /\ v \in HalfFallsBelow THEN v \div 10 ELSE (v + 5) \div 10

billCreateSchema_NegativeAmount(raw) ==
  LET okCents == raw.amount_cents.null
                 \/ (raw.amount_cents.value % 1000 = 0 /\ raw.amount_cents.value >= 0)
      okCadence == raw.cadence \in Cadences
      okType == raw.type.null \/ raw.type.value \in {"bill", "subscription"}
      refined == ~raw.amount_cents.null \/ ~raw.amount.null
  IN IF okCents /\ okCadence /\ okType /\ refined
     THEN [success |-> TRUE,
           data |-> [amount_cents |-> IF ~raw.amount_cents.null THEN raw.amount_cents.value \div 1000
                                      ELSE MathRoundAmountTimes100(IF raw.amount.null THEN 0
                                                                   ELSE raw.amount.value),
                     cadence |-> raw.cadence,
                     type |-> IF raw.type.null THEN "bill" ELSE raw.type.value,
                     due_day |-> NULL, start_date |-> NULL, end_date |-> NULL]]
     ELSE [success |-> FALSE]

\* billCreateSchema.safeParse(req.body)
billCreateSchema(raw) ==
  LET okCents == raw.amount_cents.null
                 \/ (raw.amount_cents.value % 1000 = 0 /\ raw.amount_cents.value >= 0)
      okAmount == raw.amount.null \/ raw.amount.value >= 0
      okCadence == raw.cadence \in Cadences
      okType == raw.type.null \/ raw.type.value \in {"bill", "subscription"}
      refined == ~raw.amount_cents.null \/ ~raw.amount.null
  IN IF okCents /\ okAmount /\ okCadence /\ okType /\ refined
     THEN [success |-> TRUE,
           data |-> [amount_cents |-> IF ~raw.amount_cents.null THEN raw.amount_cents.value \div 1000
                                      ELSE MathRoundAmountTimes100(IF raw.amount.null THEN 0
                                                                   ELSE raw.amount.value),
                     cadence |-> raw.cadence,
                     type |-> IF raw.type.null THEN "bill" ELSE raw.type.value,
                     due_day |-> NULL, start_date |-> NULL, end_date |-> NULL]]
     ELSE [success |-> FALSE]

\* raw bodies of POST /api/bills: amount_cents absent, 800, 12.5, -5; amount
\* absent, 0.125, 1.005, -1; a cadence of the enumeration or not
BillBodies ==
  {[amount_cents |-> c, amount |-> a, cadence |-> k, type |-> t] :
     c \in {NULL, Some(800000), Some(12500), Some(-5000)},
     a \in {NULL, Some(125), Some(1005), Some(-1000)},
     k \in {"monthly", "yearly"},
     t \in {NULL, Some("subscription")}}
\* { type } bodies of PATCH /api/bills/:id
PatchTypes == {"bill", "subscription", "loan"}

\* app.post('/api/bills'): 400 when the body does not parse, else 201 with the row
PostBills(u, raw) ==
  LET parsed == billCreateSchema(raw)
  IN /\ req' = [route |-> "POST /api/bills", userId |-> u, body |-> raw]
     /\ IF ~parsed.success
        THEN /\ res' = [status |-> 400, row |-> NoRow]
             /\ UNCHANGED bills
        ELSE /\ Cardinality(bills) < MaxBills
             /\ bills' = bills \cup {BillsCreateRow(bills, u, parsed.data)}
             /\ res' = [status |-> 201, row |-> BillsCreateRow(bills, u, parsed.data)]
     /\ UNCHANGED <<assumptions, income, transactions, now, pc, loc, hist, call>>

NextBills ==
  \/ \E u \in Users, raw \in BillBodies : PostBills(u, raw)
  \/ \E u \in Users, i \in Ids(MaxBills), t \in PatchTypes : PatchBill(u, i, t)
  \/ \E u \in Users, i \in Ids(MaxBills) : DeleteBill(u, i)
  \/ \E u \in Users, r \in PlanRanges : CallBuildBillsPlan(u, r.first, r.endIncl)

SpecBills == Init /\ [][NextBills]_vars


(***************************************************************************)
(* The store reads of a read request in flight: which of the three         *)
(* independent reads the handler has issued (called, so that the store     *)
(* works on them) and which have completed (their await has returned).     *)
(***************************************************************************)
IndependentReads == {"income", "spend", "bills"}

\* the forecast issues each read in the statement that awaits it; the summary
\* issues the two aggregates in one Promise.all and the bills read after it
IssuedReads ==
  CASE pc = "f_income" -> {"income"}
    [] pc = "f_spend" -> {"income", "spend"}
    [] pc = "f_bills" -> {"income", "spend", "bills"}
    [] pc = "s_agg" -> {"income", "spend"}
    [] pc = "s_bills" -> {"income", "spend", "bills"}
    [] OTHER -> {}

CompletedReads ==
  CASE pc = "f_spend" -> {"income"}
    [] pc = "f_bills" -> {"income", "spend"}
    [] pc = "s_agg" -> (IF loc.incAgg # Unread THEN {"income"} ELSE {})
                       \cup (IF loc.spendAgg # Unread THEN {"spend"} ELSE {})
    [] pc = "s_bills" -> {"income", "spend"}
    [] OTHER -> {}


(***************************************************************************)
(* One read request running among writes, with the record of every store   *)
(* state that existed while the request was in flight (`call` holds the    *)
(* set of these states).  A store state is recorded before anything else   *)
(* happens in it, so the record misses none; the request is the only one   *)
(* of the behaviour.                                                       *)
(***************************************************************************)
InitSnap ==
  /\ InitStore
  /\ now = NowInit
  /\ pc = "idle"
  /\ req = Idle
  /\ loc = Idle
  /\ res = Idle
  /\ hist = Idle
  /\ call = {}

InFlight == pc \notin {"idle", "done"}
Recorded == InFlight => store \in call

\* the store state of this instant is added to the record
RecordStore ==
  /\ InFlight
  /\ store \notin call
  /\ Cardinality(call) < MaxSnapshots
  /\ call' = call \cup {store}
  /\ UNCHANGED <<store, now, pc, req, loc, res, hist>>

NextSnap ==
  \/ RecordStore
  \/ Recorded /\ Writes
  \/ Recorded /\ Tick
  \/ pc = "idle" /\ \E u \in Users, q \in RunStartParams : ForecastBegin(u, q)
  \/ Recorded /\ ForecastReadAssumptions
  \/ Recorded /\ ForecastReadIncome
  \/ Recorded /\ ForecastReadSpend
  \/ Recorded /\ ForecastReadBills
  \/ ForecastLoop
  \/ pc = "idle" /\ \E u \in Users, q \in RunMonthParams : SummaryBegin(u, q)
  \/ Recorded /\ SummaryAggIncome
  \/ Recorded /\ SummaryAggSpend
  \/ Recorded /\ SummaryReadBills

SpecSnap == InitSnap /\ [][NextSnap]_vars


(***************************************************************************)
(* buildBillsPlanByMonth applied to rows whose cadence the enumeration     *)
(* does not list (the cadence type of the store has gained a value): the   *)
(* default branch of the switch.                                           *)
(***************************************************************************)
CadenceBillInputs ==
  {[amount_cents |-> a, cadence |-> c, type |-> "bill", due_day |-> NULL, start_date |-> w.start_date,
    end_date |-> w.end_date] : a \in PlanAmounts, c \in {"semiannual", "monthly"}, w \in PlanWindows}

InitCadence ==
  /\ assumptions = {}
  /\ \E n \in 0..MaxPlanBills : \E bs \in [1..n -> CadenceBillInputs] : bills = BillsPosted("u1", bs)
  /\ income = {}
  /\ transactions = {}
  /\ now = NowInit
  /\ pc = "idle"
  /\ req = Idle
  /\ loc = Idle
  /\ res = Idle
  /\ hist = Idle
  /\ call = NoCall

SpecCadence == InitCadence /\ [][NextPlan]_vars


(***************************************************************************)
(* The read requests of one user among the writes of another user.  u1     *)
(* holds Assumptions and either a monthly bill or an income row; u2 starts *)
(* with nothing and creates and deletes bills, income and transactions and *)
(* puts Assumptions while u1 asks for forecasts and summaries.             *)
(***************************************************************************)
IsoReader == "u1"
IsoWriter == "u2"
IsoStartParams == {<<"2", "0", "2", "7", "-", "1", "0">>}
IsoMonthParams == {<<"2", "0", "2", "7", "-", "1", "1">>}
IsoSavingsInputs == {500}
IsoAsOfDates == {D(2027, 12, 1)}

InitIso ==
  /\ assumptions = AssumptionsUpsert({}, IsoReader, 10000, D(2027, 11, 30), NULL, NULL)
  /\ \/ /\ bills = {[id |-> 1, user_id |-> IsoReader, amount_cents |-> 300, cadence |-> "monthly",
                      type |-> "bill", due_day |-> NULL, start_date |-> NULL, end_date |-> NULL]}
        /\ income = {}
     \/ /\ bills = {}
        /\ income = {[id |-> 1, user_id |-> IsoReader, date |-> D(2027, 11, 5), amount_cents |-> 2000]}
  /\ transactions = {}
  /\ now = NowInit
  /\ pc = "idle"
  /\ req = Idle
  /\ loc = Idle
  /\ res = Idle
  /\ hist = Idle
  /\ call = NoCall

IsoWrites ==
  /\ WritesMayRun
  /\ \/ \E s \in IsoSavingsInputs, d \in IsoAsOfDates : PutAssumptions(IsoWriter, s, d, NULL, NULL)
     \/ \E b \in IncomeInputs : PostIncome(IsoWriter, b)
     \/ \E i \in Ids(MaxIncome) : DeleteIncome(IsoWriter, i)
     \/ \E b \in TxnInputs : PostTransaction(IsoWriter, b)
     \/ \E i \in Ids(MaxTxn) : DeleteTransaction(IsoWriter, i)
     \/ \E b \in BillInputs : PostBill(IsoWriter, b)
     \/ \E i \in Ids(MaxBills) : DeleteBill(IsoWriter, i)

NextIso ==
  \/ IsoWrites
  \/ \E q \in IsoStartParams : ForecastBegin(IsoReader, q)
  \/ ForecastReadAssumptions
  \/ ForecastReadIncome
  \/ ForecastReadSpend
  \/ ForecastReadBills
  \/ ForecastLoop
  \/ \E q \in IsoMonthParams : SummaryBegin(IsoReader, q)
  \/ SummaryAggIncome
  \/ SummaryAggSpend
  \/ SummaryReadBills
  \/ KeepExchange

SpecIso == InitIso /\ [][NextIso]_vars


(***************************************************************************)
(* monthRange and the three handlers that call it before they read the     *)
(* store: GET /api/income, GET /api/transactions and GET /api/summary.     *)
(***************************************************************************)
\* ?month= values: well formed (this month, December, a year below 100),
\* month out of range, and malformed
MonthStrings ==
  {<<"2", "0", "2", "7", "-", "1", "1">>,
   <<"2", "0", "2", "7", "-", "1", "2">>,
   <<"0", "0", "5", "0", "-", "0", "3">>,
   <<"2", "0", "2", "7", "-", "1", "3">>,
   <<"2", "0", "2", "7", "-", "0", "0">>,
   <<"2", "0", "2", "7", "-", "1">>,
   <<"2", "0", "2", "7", "/", "1", "1">>,
   <<"2", "0", "2", "7", "-", "1", "1", "-">>}

\* a direct application of monthRange
CallMonthRange(s) ==
  /\ call' = [arg |-> s, ret |-> monthRange(s)]
  /\ UNCHANGED <<store, now, pc, req, loc, res, hist>>

\* catch (e) of the two list handlers
ListCatch(route, e) ==
  [status |-> IF "status" \in DOMAIN e THEN e.status ELSE 500,
   body |-> [error |-> IF e.message # "" THEN e.message
                       ELSE IF route = "income" THEN "Failed to fetch income"
                       ELSE "Failed to fetch transactions"]]

\* findMany({ where: { user_id, date: { gte: start, lt: end } } })
FindManyInRange(table, userId, start, end) ==
  {r \in table : r.user_id = userId /\ DateLE(start, r.date) /\ DateLT(r.date, end)}

RECURSIVE OrderByDateAsc(_)
\* orderBy: { date: 'asc' } (rows of one date in the order of their ids)
OrderByDateAsc(rows) ==
  IF rows = {} THEN <<>>
  ELSE LET r == CHOOSE x \in rows :
                  \A y \in rows : DateLT(x.date, y.date) \/ (x.date = y.date /\ x.id <= y.id)
       IN <<r>> \o OrderByDateAsc(rows \ {r})

\* GET /api/income and GET /api/transactions up to the await: monthRange(month)
ListBegin(route, u, monthParam) ==
  /\ pc \in {"idle", "done"}
  /\ route \in {"income", "transactions"}
  /\ LET month == IF monthParam = Absent THEN <<>> ELSE monthParam
         r == monthRange(month)
     IN /\ req' = [route |-> route, userId |-> u, month |-> month, nowAtStart |-> now]
        /\ hist' = [reads |-> 0, failed |-> FALSE]
        /\ IF r.throws
           THEN /\ res' = ListCatch(route, r)
                /\ loc' = [month |-> month]
                /\ pc' = "done"
           ELSE /\ res' = Idle
                /\ loc' = [month |-> month, start |-> r.start, end |-> r.end]
                /\ pc' = "l_find"
  /\ UNCHANGED <<store, now, call>>

\* await prisma.<table>.findMany, then res.json(rows)
ListFind ==
  /\ pc = "l_find"
  /\ LET table == IF req.route = "income" THEN income ELSE transactions
     IN res' = [status |-> 200,
                body |-> OrderByDateAsc(FindManyInRange(table, req.userId, loc.start, loc.end))]
  /\ hist' = [hist EXCEPT !.reads = @ + 1]
  /\ pc' = "done"
  /\ UNCHANGED <<store, now, req, loc, call>>

\* findMany throws an error with this message
ListStoreError(message) ==
  /\ pc = "l_find"
  /\ hist' = [hist EXCEPT !.reads = @ + 1, !.failed = TRUE] @@ [message |-> message]
  /\ res' = ListCatch(req.route, [message |-> message])
  /\ pc' = "done"
  /\ UNCHANGED <<store, now, req, loc, call>>

NextMonthRange ==
  \/ \E s \in MonthStrings \cup {<<>>} : CallMonthRange(s)
  \/ \E u \in Users, b \in IncomeInputs : WritesMayRun /\ PostIncome(u, b)
  \/ \E u \in Users, b \in TxnInputs : WritesMayRun /\ PostTransaction(u, b)
  \/ \E u \in Users, q \in MonthStrings \cup {Absent} : ListBegin("income", u, q)
  \/ \E u \in Users, q \in MonthStrings \cup {Absent} : ListBegin("transactions", u, q)
  \/ ListFind
  \/ \E m \in StoreErrorMessages : ListStoreError(m)
  \/ \E u \in Users, q \in MonthStrings \cup {Absent} : SummaryBegin(u, q)
  \/ SummaryAggIncome
  \/ SummaryAggSpend
  \/ SummaryReadBills

SpecMonthRange == Init /\ [][NextMonthRange]_vars


(***************************************************************************)
(* The three DELETE endpoints with their responses, called by two users on *)
(* a store that holds one bill, one income row and one transaction of      *)
(* each.  hist keeps the store as it was when the request arrived.         *)
(***************************************************************************)
DeleteRoutes == {"DELETE /api/bills/:id", "DELETE /api/income/:id", "DELETE /api/transactions/:id"}
\* req.params.id: the ids of the rows and an id no row has
DeleteIds == {1, 2, 3}

InitDelete ==
  /\ assumptions = {}
  /\ bills = {[id |-> i, user_id |-> IF i = 1 THEN "u1" ELSE "u2", amount_cents |-> 800,
               cadence |-> "monthly", type |-> "bill", due_day |-> NULL, start_date |-> NULL,
               end_date |-> NULL] : i \in {1, 2}}
  /\ income = {[id |-> i, user_id |-> IF i = 1 THEN "u1" ELSE "u2", date |-> D(2027, 11, 5),
                amount_cents |-> 2000] : i \in {1, 2}}
  /\ transactions = {[id |-> i, user_id |-> IF i = 1 THEN "u1" ELSE "u2", date |-> D(2027, 11, 20),
                      amount_cents |-> 500] : i \in {1, 2}}
  /\ now = NowInit
  /\ pc = "idle"
  /\ req = Idle
  /\ loc = Idle
  /\ res = Idle
  /\ hist = Idle
  /\ call = NoCall

\* app.delete('/api/bills/:id' | '/api/income/:id' | '/api/transactions/:id')
DeleteRequest(route, u, id) ==
  LET table == CASE route = "DELETE /api/bills/:id" -> bills
                 [] route = "DELETE /api/income/:id" -> income
                 [] route = "DELETE /api/transactions/:id" -> transactions
      del == DeleteMany(table, id, u)
  IN /\ req' = [route |-> route, userId |-> u, id |-> id]
     /\ hist' = [before |-> store]
     /\ bills' = IF route = "DELETE /api/bills/:id" THEN del.rows ELSE bills
     /\ income' = IF route = "DELETE /api/income/:id" THEN del.rows ELSE income
     /\ transactions' = IF route = "DELETE /api/transactions/:id" THEN del.rows ELSE transactions
     /\ res' = IF del.count = 0 THEN [status |-> 404, error |-> "Not found"]
               ELSE IF route = "DELETE /api/bills/:id" THEN [status |-> 200, error |-> ""]
               ELSE [status |-> 204, error |-> ""]
     /\ UNCHANGED <<assumptions, now, pc, loc, call>>

NextDelete == \E route \in DeleteRoutes, u \in RunUsers, id \in DeleteIds : DeleteRequest(route, u, id)

SpecDelete == InitDelete /\ [][NextDelete]_vars

(***************************************************************************)
(* Vocabulary of the properties.                                           *)
(***************************************************************************)
\* the month index (year*12 + month-1) a month key "YYYY-MM" denotes
MonthIndexOfKey(k) == NumberOf(SubSeq(k, 1, Len(k) - 3)) * 12 + NumberOf(SubSeq(k, Len(k) - 1, Len(k))) - 1

\* calendar days compared as (month, day)
DayLE(d1, d2) == d1.mi < d2.mi \/ (d1.mi = d2.mi /\ d1.day <= d2.day)
FirstDayOf(mi) == [mi |-> mi, day |-> 1]
LastDayOf(mi) == [mi |-> mi, day |-> DaysInMonth(mi)]

\* a bill is active in month mi: started by the end of the month, not ended before its first day
ActiveInMonth(b, mi) ==
  /\ (b.start_date = NULL \/ DayLE(b.start_date, LastDayOf(mi)))
  /\ (b.end_date = NULL \/ DayLE(FirstDayOf(mi), b.end_date))

\* n/d rounded to the nearest integer, a half rounded up (n >= 0, d > 0)
RoundHalfUp(n, d) == (2 * n + d) \div (2 * d)

\* what the code adds for a bill in a month in which the bill is active
CodeCentsWhenActive(b, mi) ==
  IF b.cadence = "once"
  THEN (IF b.start_date # NULL /\ b.start_date.mi = mi THEN b.amount_cents ELSE 0)
  ELSE MathRoundAmtTimesFactor(b.amount_cents, b.cadence)

\* the monthly contribution of an active bill as the cadence table states it
TableCentsWhenActive(b, mi) ==
  CASE b.cadence = "monthly" -> b.amount_cents
    [] b.cadence = "weekly" -> RoundHalfUp(b.amount_cents * 52, 12)
    [] b.cadence = "biweekly" -> RoundHalfUp(b.amount_cents * 26, 12)
    [] b.cadence = "quarterly" -> RoundHalfUp(b.amount_cents, 3)
    [] b.cadence = "annual" -> RoundHalfUp(b.amount_cents, 12)
    [] b.cadence = "once" ->
         (IF b.start_date # NULL /\ b.start_date.mi = mi THEN b.amount_cents ELSE 0)

RECURSIVE SumFn(_)
\* the sum of the values of a function with a finite domain
SumFn(f) ==
  IF DOMAIN f = {} THEN 0
  ELSE LET x == CHOOSE y \in DOMAIN f : TRUE
       IN f[x] + SumFn([y \in (DOMAIN f) \ {x} |-> f[y]])

\* the sum over the bills bs of Cents(b, mi) for the bills active in month mi
SumActive(bs, mi, Cents(_, _)) ==
  SumFn([b \in bs |-> IF ActiveInMonth(b, mi) THEN Cents(b, mi) ELSE 0])

Key(y, m) == DecStr(y) \o <<"-">> \o padStart(DecStr(m), 2, "0")

(***************************************************************************)
(* C9: in every plan that buildBillsPlanByMonth returns, the value of a    *)
(* month is the sum of the contributions of exactly the bills active in    *)
(* that month (start_date null or <= last day of the month, end_date null  *)
(* or >= first day of the month, both inclusive); an inactive bill adds 0  *)
(* whatever its cadence.                                                   *)
(***************************************************************************)
C9_ActivationWindow ==
  call # NoCall =>
    \A k \in DOMAIN call.ret :
      call.ret[k] = SumActive(call.bills, MonthIndexOfKey(k), CodeCentsWhenActive)

\* the monthly bill with start 2025-06-10 and end 2025-06-20 counts fully in
\* 2025-06 and 0 in 2025-05 and 2025-07
C9_Witness ==
  /\ call # NoCall
  /\ \E b \in call.bills :
       /\ call.bills = {b}
       /\ b.cadence = "monthly" /\ b.amount_cents = 1200
       /\ b.start_date = D(2025, 6, 10) /\ b.end_date = D(2025, 6, 20)
  /\ DOMAIN call.ret = {Key(2025, 5), Key(2025, 6), Key(2025, 7)}
  /\ call.ret[Key(2025, 6)] = 1200
  /\ call.ret[Key(2025, 5)] = 0
  /\ call.ret[Key(2025, 7)] = 0

(***************************************************************************)
(* C10: for an active bill with amount a the monthly contribution is       *)
(* monthly a, weekly round(a*52/12), biweekly round(a*26/12), quarterly    *)
(* round(a/3), annual round(a/12), rounded to the nearest cent per bill,   *)
(* the same in every active month.                                         *)
(***************************************************************************)
C10_CadenceTable ==
  call # NoCall =>
    \A k \in DOMAIN call.ret :
      call.ret[k] = SumActive(call.bills, MonthIndexOfKey(k), TableCentsWhenActive)

(***************************************************************************)
(* C11: a bill with cadence 'once' contributes its full amount_cents in    *)
(* exactly the calendar month of its start_date, provided it is active     *)
(* there, and 0 in every other month; a 'once' bill with null start_date   *)
(* contributes 0 in every month.                                           *)
(***************************************************************************)
\* the contribution of a 'once' bill to month mi
OnceContribution(b, mi) ==
  IF b.start_date = NULL THEN 0
  ELSE IF b.start_date.mi = mi /\ ActiveInMonth(b, mi) THEN b.amount_cents
  ELSE 0

C11_OnceOnlyInStartMonth ==
  call # NoCall =>
    \A k \in DOMAIN call.ret :
      LET mi == MonthIndexOfKey(k)
          once == {b \in call.bills : b.cadence = "once"}
      IN call.ret[k] = SumFn([b \in once |-> OnceContribution(b, mi)])
                       + SumActive(call.bills \ once, mi, CodeCentsWhenActive)

\* a 'once' bill that started on 2025-05-31 and never ends counts in 2025-05
\* only, next to a 'once' bill without start_date that counts nowhere
C11_Witness ==
  /\ call # NoCall
  /\ \E b1, b2 \in call.bills :
       /\ call.bills = {b1, b2}
       /\ b1.cadence = "once" /\ b1.amount_cents = 1200
       /\ b1.start_date = D(2025, 5, 31) /\ b1.end_date = NULL
       /\ b2.cadence = "once" /\ b2.amount_cents = 27
       /\ b2.start_date = NULL /\ b2.end_date = NULL
  /\ DOMAIN call.ret = {Key(2025, 5), Key(2025, 6), Key(2025, 7)}
  /\ call.ret[Key(2025, 5)] = 1200
  /\ call.ret[Key(2025, 6)] = 0
  /\ call.ret[Key(2025, 7)] = 0

(***************************************************************************)
(* C12: buildBillsPlanByMonth(user, first, last) with first <= last        *)
(* returns a map with exactly one entry for every calendar month of the    *)
(* closed range [month(first), month(last)] and no other key; each value   *)
(* is the sum over all of the user's bills of that bill's contribution to  *)
(* that month, and a month with no contributing bill has the value 0.      *)
(***************************************************************************)
\* what one bill contributes to month mi
Contribution(b, mi) == IF ActiveInMonth(b, mi) THEN CodeCentsWhenActive(b, mi) ELSE 0

C12_OneEntryPerMonth ==
  (call # NoCall /\ DateLE(call.first, call.endIncl)) =>
    LET months == call.first.mi .. call.endIncl.mi
        userBills == {b \in bills : b.user_id = call.userId}
    IN /\ DOMAIN call.ret = {Key(mi \div 12, (mi % 12) + 1) : mi \in months}
       /\ Cardinality(DOMAIN call.ret) = Cardinality(months)
       /\ \A mi \in months :
            LET k == Key(mi \div 12, (mi % 12) + 1)
            IN /\ call.ret[k] = SumFn([b \in userBills |-> Contribution(b, mi)])
               /\ (\A b \in userBills : Contribution(b, mi) = 0) => call.ret[k] = 0

\* the range 2025-05-20 .. 2025-06-05 of a user whose only bill has ended
\* before it started: the two keys 2025-05 and 2025-06, both 0
C12_Witness ==
  /\ call # NoCall
  /\ call.first = D(2025, 5, 20) /\ call.endIncl = D(2025, 6, 5)
  /\ Cardinality(bills) = 1
  /\ \A b \in bills : b.cadence = "monthly" /\ b.start_date = D(2025, 6, 10) /\ b.end_date = D(2025, 5, 20)
  /\ DOMAIN call.ret = {Key(2025, 5), Key(2025, 6)}
  /\ call.ret[Key(2025, 5)] = 0
  /\ call.ret[Key(2025, 6)] = 0

(***************************************************************************)
(* Vocabulary of the forecast properties.                                  *)
(***************************************************************************)
FinishedForecast == pc = "done" /\ req.route = "forecast"
ForecastOK == FinishedForecast /\ res.status = 200

\* the total the store held for month mi when it was read (0 without rows)
ActualIn(totals, mi) == IF mi \in DOMAIN totals THEN totals[mi] ELSE 0

\* the value the plan holds for month mi (0 when it holds none)
PlanAt(plan, mi) ==
  IF \E k \in DOMAIN plan : MonthIndexOfKey(k) = mi
  THEN plan[CHOOSE k \in DOMAIN plan : MonthIndexOfKey(k) = mi]
  ELSE 0

RECURSIVE SumNet(_, _)
\* the sum of net_change_cents of the points 1..i
SumNet(out, i) == IF i = 0 THEN 0 ELSE SumNet(out, i - 1) + out[i].net_change_cents

\* a start parameter of form YYYY-MM with month 01..12
WellFormedMonthKey(k) ==
  /\ Len(k) = 7
  /\ \A i \in {1, 2, 3, 4, 6, 7} : IsDigit(k[i])
  /\ k[5] = "-"
  /\ NumberOf(SubSeq(k, 6, 7)) \in 1..12

\* the month the request asks to start at: the month of the start parameter,
\* the month of the clock at the request when there is none
RequestedMi == IF req.start = Absent THEN req.nowAtStart ELSE MonthIndexOfKey(req.start)
\* the month of the as_of_date of the Assumptions the request read
AsOfMi == loc.a.as_of_date.mi
\* December 2027
HorizonMi == 2027 * 12 + 11

\* the order of the characters of a month key: "-" sorts before the digits
CharOrd(c) == IF c = "-" THEN 0 ELSE DigitVal(c) + 1
\* lexicographic order of two strings of the same length
LexLess(s, t) ==
  \E i \in 1..Len(s) :
    /\ \A j \in 1..(i - 1) : s[j] = t[j]
    /\ CharOrd(s[i]) < CharOrd(t[i])

(***************************************************************************)
(* C1: in every successful forecast response, each point's net change is   *)
(* the income of its month minus the spend selected for its month, and its *)
(* savings are the baseline current_savings_cents plus the net changes of  *)
(* all points up to and including it.                                      *)
(***************************************************************************)
C1_RunningBalance ==
  ForecastOK =>
    \A i \in 1..Len(res.body) :
      LET p == res.body[i]
          mi == MonthIndexOfKey(p.month_key)
      IN /\ p.net_change_cents = ActualIn(hist.income, mi) - loc.debugRows[i].chosenSpend
         /\ p.savings_cents = loc.a.current_savings_cents + SumNet(res.body, i)
         /\ p.savings_cents - (IF i = 1 THEN loc.a.current_savings_cents ELSE res.body[i - 1].savings_cents)
              = p.net_change_cents

\* a forecast of two months with income and spend, the second balance built on the first
C1_Witness ==
  /\ ForecastOK
  /\ Len(res.body) = 2
  /\ res.body[1].net_change_cents = 2000 - 800
  /\ res.body[1].savings_cents = 10000 + 1200
  /\ res.body[2].net_change_cents = 0 - 800
  /\ res.body[2].savings_cents = 10000 + 1200 - 800

(***************************************************************************)
(* C2: for every emitted month, the spend used is the actual spend of the  *)
(* month when the month is strictly before the current UTC month (planned  *)
(* bills ignored, 0 without transactions), and max(actual spend, planned   *)
(* bills total) otherwise.  The current month is the one the clock shows   *)
(* when the month is processed.                                            *)
(***************************************************************************)
C2_SpendSelection ==
  ForecastOK =>
    \A i \in 1..Len(res.body) :
      LET row == loc.debugRows[i]
          mi == MonthIndexOfKey(res.body[i].month_key)
          actual == ActualIn(hist.transactions, mi)
          planned == PlanAt(loc.billsPlanByMonth, mi)
      IN /\ mi < row.now => row.chosenSpend = actual
         /\ mi >= row.now => row.chosenSpend = Max(actual, planned)
         /\ res.body[i].net_change_cents = row.inc - row.chosenSpend

\* actual 500 and planned 800 in a past month give 500; planned 800 in the current month gives 800
C2_Witness ==
  /\ ForecastOK
  /\ Len(res.body) = 2
  /\ loc.debugRows[1].now = HorizonMi /\ loc.debugRows[2].now = HorizonMi
  /\ loc.debugRows[1].actualSpend = 500 /\ loc.debugRows[1].plannedBills = 800
  /\ loc.debugRows[1].chosenSpend = 500
  /\ loc.debugRows[2].actualSpend = 0 /\ loc.debugRows[2].plannedBills = 800
  /\ loc.debugRows[2].chosenSpend = 800

(***************************************************************************)
(* C3: the first month of every non-empty forecast is the later of the     *)
(* requested start month and the month of Assumptions.as_of_date, and no   *)
(* emitted month is earlier than the as_of_date month.                     *)
(***************************************************************************)
C3_EffectiveStart ==
  (ForecastOK /\ Len(res.body) > 0) =>
    /\ MonthIndexOfKey(res.body[1].month_key) = Max(RequestedMi, AsOfMi)
    /\ \A i \in 1..Len(res.body) : MonthIndexOfKey(res.body[i].month_key) >= AsOfMi

\* start=2027-10 with as_of_date in 2027-11: the forecast begins at 2027-11
C3_Witness ==
  /\ ForecastOK
  /\ req.start = Key(2027, 10)
  /\ AsOfMi = 2027 * 12 + 10
  /\ Len(res.body) > 0
  /\ res.body[1].month_key = Key(2027, 11)

(***************************************************************************)
(* C4: every non-empty forecast ends with month_key "2027-12", and a       *)
(* request with Assumptions present whose start month is after 2027-12     *)
(* gets a successful empty sequence (when no store call fails).            *)
(***************************************************************************)
C4_FixedHorizon ==
  FinishedForecast =>
    /\ (res.status = 200 /\ Len(res.body) > 0) => res.body[Len(res.body)].month_key = Key(2027, 12)
    /\ ( /\ ~hist.failed
         /\ req.start # Absent
         /\ WellFormedMonthKey(req.start)
         /\ MonthIndexOfKey(req.start) > HorizonMi
         /\ hist.reads > 0
         /\ hist.assumptions # NoRow )
       => (res.status = 200 /\ res.body = <<>>)

\* start=2028-01 with Assumptions present: 200 and an empty sequence
C4_Witness ==
  /\ FinishedForecast
  /\ req.start = Key(2028, 1)
  /\ hist.reads = 4
  /\ hist.assumptions # NoRow
  /\ res.status = 200
  /\ res.body = <<>>

(***************************************************************************)
(* C5: the points are in strictly ascending month_key order, cover         *)
(* consecutive calendar months without gap or duplicate, and their number  *)
(* is the number of months from the effective start through the horizon    *)
(* end inclusive.                                                          *)
(***************************************************************************)
C5_ConsecutiveMonths ==
  ForecastOK =>
    LET out == res.body
        effective == Max(RequestedMi, AsOfMi)
    IN /\ Len(out) = Max(0, HorizonMi - effective + 1)
       /\ \A i \in 1..Len(out) : MonthIndexOfKey(out[i].month_key) = effective + i - 1
       /\ \A i \in 1..Len(out) : Len(out[i].month_key) = 7
       /\ \A i \in 1..(Len(out) - 1) : LexLess(out[i].month_key, out[i + 1].month_key)

\* a forecast from 2027-11: the two points 2027-11 and 2027-12
C5_Witness ==
  /\ ForecastOK
  /\ Len(res.body) = 2
  /\ res.body[1].month_key = Key(2027, 11)
  /\ res.body[2].month_key = Key(2027, 12)

(***************************************************************************)
(* C6: a forecast request that finds no Assumptions record for the user    *)
(* ends in an error response without forecast points; the baseline is not  *)
(* defaulted to zero.                                                      *)
(***************************************************************************)
C6_MissingBaseline ==
  (FinishedForecast /\ hist.reads > 0 /\ ~hist.failed /\ hist.assumptions = NoRow) =>
    /\ res.status = 400
    /\ res.body = [error |-> "Set assumptions first (current savings & as_of_date)."]

\* a well-formed request of a user without Assumptions, answered 400
C6_Witness ==
  /\ FinishedForecast
  /\ req.start = Key(2027, 12)
  /\ hist.reads = 1 /\ ~hist.failed
  /\ hist.assumptions = NoRow
  /\ res.status = 400

(***************************************************************************)
(* C7: a forecast request whose start parameter does not match YYYY-MM or  *)
(* whose month is outside 1..12 is rejected with a client input error      *)
(* before any store read, and is not coerced to another month.             *)
(***************************************************************************)
C7_MalformedStartRejected ==
  (req.route = "forecast" /\ req.start # Absent /\ ~WellFormedMonthKey(req.start)) =>
    /\ hist.reads = 0
    /\ pc = "done"
    /\ res.status = 400

(***************************************************************************)
(* C8: when a store read fails during a forecast or a summary request, the *)
(* response is a generic internal failure (500) whose body does not carry  *)
(* the store's error message.                                              *)
(***************************************************************************)
C8_GenericStoreFailure ==
  (pc = "done" /\ req.route \in {"forecast", "summary"} /\ hist.failed) =>
    /\ res.status = 500
    /\ hist.message # "" => res.body.error # hist.message

(***************************************************************************)
(* Vocabulary of the summary properties.                                   *)
(***************************************************************************)
FinishedSummary == pc = "done" /\ req.route = "summary"
SummaryOK == FinishedSummary /\ res.status = 200

(***************************************************************************)
(* C14: a summary request with a well-formed month succeeds and returns    *)
(* {month, income, spending, net}, also for a user who has no Assumptions  *)
(* record; the summary never reads or requires Assumptions.                *)
(***************************************************************************)
C14_SummaryWithoutAssumptions ==
  (FinishedSummary /\ WellFormedMonthKey(req.month)) =>
    /\ "assumptions" \notin DOMAIN hist
    /\ ~hist.failed =>
         /\ res.status = 200
         /\ DOMAIN res.body = {"month", "income100", "spending100", "net100"}
         /\ res.body.month = req.month

\* the summary of 2027-11 of a user without Assumptions: 200 after the three reads
C14_Witness ==
  /\ SummaryOK
  /\ req.month = Key(2027, 11)
  /\ FindUniqueAssumptions(req.userId) = NoRow
  /\ hist.reads = 3
  /\ res.body.income100 = 2000
  /\ res.body.spending100 = 800

(***************************************************************************)
(* C15: a forecast request and a summary request, whether they succeed or  *)
(* fail, leave the store unchanged: no step of either handler changes the  *)
(* bills, the income rows, the transactions or the Assumptions records.    *)
(***************************************************************************)
C15_ReadsOnly ==
  [][(<<pc, req, loc, res, hist>>' # <<pc, req, loc, res, hist>>) => (store' = store)]_vars

\* a forecast answered 200 over a store with a row in every table
C15_Witness ==
  /\ ForecastOK
  /\ Len(res.body) = 2
  /\ FindUniqueAssumptions(req.userId) # NoRow
  /\ bills # {} /\ income # {} /\ transactions # {}
  /\ TotalsByMonth(income, req.userId) = hist.income
  /\ TotalsByMonth(transactions, req.userId) = hist.transactions

(***************************************************************************)
(* C17 as stated: for a forecast month that has neither income nor         *)
(* spending recorded, net_change_cents = 0 - planned bills total of that   *)
(* month (0 when nothing is planned), and the request does not fail.       *)
(***************************************************************************)
\* the months of a finished forecast for which neither income nor spending was read
NoActuals(mi) == mi \notin DOMAIN hist.income /\ mi \notin DOMAIN hist.transactions

C17_MissingMonthIsMinusPlanned ==
  ForecastOK =>
    \A i \in 1..Len(res.body) :
      LET mi == MonthIndexOfKey(res.body[i].month_key)
      IN NoActuals(mi) => res.body[i].net_change_cents = 0 - PlanAt(loc.billsPlanByMonth, mi)

(***************************************************************************)
(* C17 amended: for a forecast month that has neither income nor spending  *)
(* recorded, net_change_cents = 0 - planned bills total of that month when *)
(* the month is the current UTC month or later, and 0 when the month is    *)
(* strictly before the current UTC month; a request that read Assumptions  *)
(* and whose store calls all succeeded is answered 200.                    *)
(***************************************************************************)
C17_MissingMonthDefault ==
  /\ ForecastOK =>
       \A i \in 1..Len(res.body) :
         LET mi == MonthIndexOfKey(res.body[i].month_key)
         IN NoActuals(mi) =>
              res.body[i].net_change_cents =
                (IF mi < loc.debugRows[i].now THEN 0 ELSE 0 - PlanAt(loc.billsPlanByMonth, mi))
  /\ (FinishedForecast /\ hist.reads > 1 /\ ~hist.failed) => res.status = 200

\* 2027-11 without actuals seen from 2027-12 nets 0 although 800 is planned;
\* 2027-12 without actuals nets -800
C17_Witness ==
  /\ ForecastOK
  /\ Len(res.body) = 2
  /\ hist.income = EmptyMap /\ hist.transactions = EmptyMap
  /\ loc.debugRows[1].now = HorizonMi /\ loc.debugRows[1].plannedBills = 800
  /\ res.body[1].net_change_cents = 0
  /\ res.body[2].net_change_cents = 0 - 800

(***************************************************************************)
(* C20: after any sequence of PUT /api/settings/assumptions requests,      *)
(* concurrent ones included, each user has at most one Assumptions record, *)
(* and it holds the current_savings_cents and the as_of_date of the PUT    *)
(* that was applied last for that user.                                    *)
(***************************************************************************)
C20_OneRecordLastPutWins ==
  \A u \in PutUsers :
    LET rows == {r \in assumptions : r.user_id = u}
    IN /\ Cardinality(rows) <= 1
       /\ hist[u] = NoCall => rows = {}
       /\ hist[u] # NoCall =>
            \E r \in rows : /\ r.current_savings_cents = hist[u].cents
                             /\ r.as_of_date = hist[u].asOf

\* three requests answered: the first received was applied last for u1 and
\* replaced the values of a later one, whose apr the row still carries
C20_Witness ==
  /\ loc = 3 /\ req = {}
  /\ hist["u1"] # NoCall /\ hist["u2"] # NoCall
  /\ hist["u1"].n = 1 /\ hist["u1"].apr = NULL /\ hist["u1"].cents = 25050
  /\ \E r \in assumptions :
       /\ r.user_id = "u1" /\ r.savings_apr = 5
       /\ r.current_savings_cents = 25050 /\ r.as_of_date = D(2027, 12, 1)

(***************************************************************************)
(* Vocabulary of the properties of two requests.                           *)
(***************************************************************************)
\* the months the clock showed when the rows of an exchange were computed
NowsOf(rows) == [i \in 1..Len(rows) |-> rows[i].now]
\* the same of the request that has just been answered
CurrentNows ==
  IF req.route = "forecast" THEN NowsOf(loc.debugRows) ELSE <<loc.now>>
CurrentParam == IF req.route = "forecast" THEN req.start ELSE req.month
BillsOf(u) == {b \in bills : b.user_id = u}
KeptForecast == call # NoCall /\ call.route = "forecast"

\* the rows of user u in a table, without the row id and the owner
RowsOf(table, u) == {[date |-> r.date, amount_cents |-> r.amount_cents] : r \in {x \in table : x.user_id = u}}
BillRowsOf(u) ==
  {[amount_cents |-> b.amount_cents, cadence |-> b.cadence, type |-> b.type, due_day |-> b.due_day,
    start_date |-> b.start_date, end_date |-> b.end_date] : b \in BillsOf(u)}
\* the stores of u and v hold the same rows and Assumptions, savings_apr and inflation_pct apart
SameButRates(u, v) ==
  /\ StoredAssumptions(u) # NoRow /\ StoredAssumptions(v) # NoRow
  /\ StoredAssumptions(u).current_savings_cents = StoredAssumptions(v).current_savings_cents
  /\ StoredAssumptions(u).as_of_date = StoredAssumptions(v).as_of_date
  /\ RowsOf(income, u) = RowsOf(income, v)
  /\ RowsOf(transactions, u) = RowsOf(transactions, v)
  /\ BillRowsOf(u) = BillRowsOf(v)
  /\ Cardinality(BillsOf(u)) = Cardinality(BillsOf(v))

(***************************************************************************)
(* C13: the monthly summary applies the same spend selection as the        *)
(* forecast: for the same user, store contents, current UTC month and a    *)
(* target month M inside the forecast range, summary.spending*100 is the   *)
(* spend the forecast used for M and summary.net*100 is the forecast's     *)
(* net_change_cents for M; summary.net = summary.income - summary.spending.*)
(***************************************************************************)
C13_SummaryMatchesForecast ==
  SummaryOK =>
    /\ res.body.net100 = res.body.income100 - res.body.spending100
    /\ (KeptForecast /\ call.userId = req.userId) =>
         \A i \in 1..Len(call.body) :
           (call.body[i].month_key = req.month /\ call.rows[i].now = loc.now) =>
             /\ res.body.spending100 = call.rows[i].chosenSpend
             /\ res.body.net100 = call.body[i].net_change_cents

\* seen from 2027-12, the forecast and the summary of 2027-11 both use the
\* actual spend 500 of 2027-11 although 800 is planned
C13_Witness ==
  /\ SummaryOK
  /\ KeptForecast /\ call.userId = req.userId
  /\ req.month = Key(2027, 11)
  /\ Len(call.body) = 2
  /\ call.body[1].month_key = Key(2027, 11)
  /\ call.rows[1].now = HorizonMi /\ loc.now = HorizonMi
  /\ call.rows[1].plannedBills = 800
  /\ res.body.spending100 = 500
  /\ res.body.net100 = 1500

C18_RatesDoNotMatter ==
  ( /\ ForecastOK
    /\ KeptForecast
    /\ call.param = req.start
    /\ call.bills = BillsOf(call.userId)
    /\ SameButRates(call.userId, req.userId)
    /\ NowsOf(call.rows) = NowsOf(loc.debugRows) )
  => res.body = call.body

\* u1 with savings_apr 0 and u2 with savings_apr 5 get the same two points
C18_Witness ==
  /\ ForecastOK
  /\ KeptForecast
  /\ call.userId = "u1" /\ req.userId = "u2"
  /\ call.param = req.start
  /\ call.bills = BillsOf("u1")
  /\ SameButRates("u1", "u2")
  /\ StoredAssumptions("u1").savings_apr = 0 /\ StoredAssumptions("u1").inflation_pct = 0
  /\ loc.a.savings_apr = 5 /\ loc.a.inflation_pct = 3
  /\ NowsOf(call.rows) = NowsOf(loc.debugRows)
  /\ Len(res.body) = 2
  /\ res.body = call.body

(***************************************************************************)
(* C19: a bill's type and due_day do not affect the plan: reclassifying a  *)
(* bill through PATCH /api/bills/:id changes no value of any later         *)
(* forecast or summary, and both bills and subscriptions are counted in    *)
(* the planned total.                                                      *)
(***************************************************************************)
\* the bills without their classification
Unclassified(bs) ==
  {[id |-> b.id, user_id |-> b.user_id, amount_cents |-> b.amount_cents, cadence |-> b.cadence,
    due_day |-> b.due_day, start_date |-> b.start_date, end_date |-> b.end_date] : b \in bs}

C19_TypeDoesNotMatter ==
  (pc = "done" /\ res.status = 200) =>
    /\ ( /\ call # NoCall
         /\ call.route = req.route
         /\ call.userId = req.userId
         /\ call.param = CurrentParam
         /\ Unclassified(call.bills) = Unclassified(BillsOf(req.userId))
         /\ NowsOf(call.rows) = CurrentNows )
       => res.body = call.body
    /\ \A k \in DOMAIN loc.billsPlanByMonth :
         loc.billsPlanByMonth[k]
           = SumFn([b \in BillsOf(req.userId) |-> Contribution(b, MonthIndexOfKey(k))])

\* the forecast of u1 before and after bill 1 became a subscription: the
\* same points, 800 planned and used for 2027-12 both times
C19_Witness ==
  /\ ForecastOK
  /\ KeptForecast
  /\ call.userId = "u1" /\ req.userId = "u1"
  /\ call.param = req.start
  /\ \A b \in call.bills : b.type = "bill"
  /\ \A b \in BillsOf("u1") : b.type = "subscription"
  /\ NowsOf(call.rows) = NowsOf(loc.debugRows)
  /\ Len(res.body) = 2
  /\ loc.debugRows[2].plannedBills = 800 /\ loc.debugRows[2].chosenSpend = 800
  /\ res.body = call.body

(***************************************************************************)
(* C21: after any sequence of POST /api/bills, PATCH /api/bills/:id and    *)
(* DELETE /api/bills/:id requests every stored bill has a non-negative     *)
(* integer amount_cents; a bill created from a decimal amount alone gets   *)
(* amount * 100 rounded to a nearest integer; and every value of a bills   *)
(* plan map is >= 0.                                                       *)
(***************************************************************************)
C21_BillAmountsNonNegative ==
  /\ \A b \in bills : b.amount_cents \in Nat
  /\ (req.route = "POST /api/bills" /\ res.status = 201 /\ req.body.amount_cents.null)
        => /\ 10 * res.row.amount_cents - 5 <= req.body.amount.value
           /\ req.body.amount.value <= 10 * res.row.amount_cents + 5
  /\ (call # NoCall) => \A k \in DOMAIN call.ret : call.ret[k] >= 0

\* a bill was created from the decimal amount 1.005 alone, was stored with
\* 100 cents, was re-typed by a PATCH, and a plan built from it has the value 100
C21_Witness ==
  /\ req.route = "POST /api/bills" /\ res.status = 201
  /\ req.body.amount_cents.null /\ req.body.amount = Some(1005) /\ req.body.type.null
  /\ \E b \in bills : b.id = res.row.id /\ b.amount_cents = 100 /\ b.type = "subscription"
  /\ call # NoCall
  /\ \E k \in DOMAIN call.ret : call.ret[k] = 100

(***************************************************************************)
(* C22: within a forecast request and within a summary request the         *)
(* independent store reads (income totals, spend totals, bill list) are    *)
(* all issued before any of them is awaited: whenever one of them has      *)
(* completed, all three have been issued.                                  *)
(***************************************************************************)
C22_ReadsIssuedTogether ==
  (CompletedReads # {}) => (IssuedReads = IndependentReads)

(***************************************************************************)
(* Vocabulary of the snapshot property: the response a request would get   *)
(* if all its reads saw the one store state s = <<assumptions, bills,      *)
(* income, transactions>>, with the clock readings the request made.       *)
(***************************************************************************)
SnapAssumptions(s, u) == {r \in s[1] : r.user_id = u}
SnapPlan(s, u, first, endIncl) ==
  buildBillsPlanByMonth(
    {[id |-> b.id, amount_cents |-> b.amount_cents, cadence |-> b.cadence,
      start_date |-> b.start_date, end_date |-> b.end_date] : b \in {x \in s[2] : x.user_id = u}},
    first, endIncl)
\* the clock reading of the i-th iteration of the fold
ClockAt(i) == IF i <= Len(loc.debugRows) THEN loc.debugRows[i].now ELSE now

\* the net change of month mi computed from s, the month classified against clock
SnapNet(s, u, mi, plan, clock) ==
  LET inc == ActualIn(TotalsByMonth(s[3], u), mi)
      actual == ActualIn(TotalsByMonth(s[4], u), mi)
      planned == PlanAt(plan, mi)
  IN inc - (IF mi < clock THEN actual ELSE Max(actual, planned))

RECURSIVE SnapSavings(_, _, _, _, _)
\* the balance after the i-th month from firstMi on
SnapSavings(s, u, firstMi, plan, i) ==
  IF i = 0 THEN (CHOOSE r \in SnapAssumptions(s, u) : TRUE).current_savings_cents
  ELSE SnapSavings(s, u, firstMi, plan, i - 1) + SnapNet(s, u, firstMi + i - 1, plan, ClockAt(i))

SnapForecastBody(s, u) ==
  LET a == CHOOSE r \in SnapAssumptions(s, u) : TRUE
      firstMi == Max(RequestedMi, a.as_of_date.mi)
      plan == SnapPlan(s, u, DateUTC(firstMi \div 12, firstMi % 12, 1, 0), HorizonEnd)
  IN [i \in 1..Max(0, HorizonMi - firstMi + 1) |->
        [month_key |-> toKey(DateUTC((firstMi + i - 1) \div 12, (firstMi + i - 1) % 12, 1, 0)),
         net_change_cents |-> SnapNet(s, u, firstMi + i - 1, plan, ClockAt(i)),
         savings_cents |-> SnapSavings(s, u, firstMi, plan, i)]]

SnapSummaryBody(s, u) ==
  LET mi == MonthIndexOfKey(req.month)
      plan == SnapPlan(s, u, loc.start, loc.endOfMonth)
      inc == ActualIn(TotalsByMonth(s[3], u), mi)
  IN [month |-> req.month, income100 |-> inc,
      spending100 |-> inc - SnapNet(s, u, mi, plan, loc.now),
      net100 |-> SnapNet(s, u, mi, plan, loc.now)]

\* the successful response equals the response computed from s
ResponseFrom(s) ==
  IF req.route = "forecast"
  THEN SnapAssumptions(s, req.userId) # {} /\ res.body = SnapForecastBody(s, req.userId)
  ELSE res.body = SnapSummaryBody(s, req.userId)

(***************************************************************************)
(* C23: when a forecast or summary request runs concurrently with writes,  *)
(* its successful response equals the result computed from one single      *)
(* store state that existed at some instant during the request.            *)
(***************************************************************************)
C23_PointInTimeSnapshot ==
  (pc = "done" /\ res.status = 200) => \E s \in call : ResponseFrom(s)

(***************************************************************************)
(* C24: within one forecast response every month is classified against one *)
(* and the same reference month: there is a single month N such that       *)
(* exactly the emitted months strictly before N use actual spend and all   *)
(* others use max(actual, planned), even if the wall clock crosses a month *)
(* boundary while the request is being computed.                           *)
(***************************************************************************)
C24_OneReferenceMonth ==
  ForecastOK =>
    LET rows == loc.debugRows
        months == {MonthIndexOfKey(rows[i].key) : i \in 1..Len(rows)}
    IN \E N \in months \cup {HorizonMi + 1} :
         \A i \in 1..Len(rows) :
           LET mi == MonthIndexOfKey(rows[i].key)
               spend == IF mi < N THEN rows[i].actualSpend
                        ELSE Max(rows[i].actualSpend, rows[i].plannedBills)
           IN /\ rows[i].isPastMonth <=> (mi < N)
              /\ res.body[i].net_change_cents = rows[i].inc - spend

\* a response of two months whose fold read the clock in two different
\* months, with planned bills above the actual spend in both months
C24_Witness ==
  /\ ForecastOK
  /\ Len(loc.debugRows) = 2
  /\ Len(res.body) = 2
  /\ loc.debugRows[1].now # loc.debugRows[2].now
  /\ \A i \in 1..2 : loc.debugRows[i].plannedBills > loc.debugRows[i].actualSpend

(***************************************************************************)
(* C25: an unrecognized cadence never causes an error: an active bill      *)
(* whose cadence is none of the six enumerated values contributes its raw  *)
(* amount_cents to every month in which it is active, exactly as a monthly *)
(* bill would.                                                             *)
(***************************************************************************)
C25_UnknownCadenceAsMonthly ==
  (call # NoCall /\ DateLE(call.first, call.endIncl)) =>
    LET asMonthly == {[b EXCEPT !.cadence = IF @ \in Cadences THEN @ ELSE "monthly"] : b \in call.bills}
    IN /\ call.ret = buildBillsPlanByMonth(asMonthly, call.first, call.endIncl)
       /\ \A mi \in call.first.mi .. call.endIncl.mi :
            PlanAt(call.ret, mi) =
              SumFn([b \in call.bills |->
                       IF ~ActiveInMonth(b, mi) THEN 0
                       ELSE IF b.cadence \in Cadences THEN CodeCentsWhenActive(b, mi)
                       ELSE b.amount_cents])

\* a plan over several months built from a bill of cadence "semiannual" that
\* is active in one of the months, where the plan holds its amount, and not
\* active in another
C25_Witness ==
  /\ call # NoCall
  /\ \E b \in call.bills :
       /\ b.cadence \notin Cadences
       /\ b.amount_cents > 0
       /\ \E m1, m2 \in call.first.mi .. call.endIncl.mi :
            /\ ActiveInMonth(b, m1) /\ PlanAt(call.ret, m1) >= b.amount_cents
            /\ ~ActiveInMonth(b, m2)

(***************************************************************************)
(* C26: in both the forecast and the summary, every month key looked up in *)
(* the bills plan map is present in that map (the plan is built over       *)
(* exactly the months that are then read), so the default of the plan      *)
(* lookup is never taken.                                                  *)
(***************************************************************************)
C26_PlanCoversLookups ==
  /\ (pc = "f_loop" /\ DateLE(loc.cursor, loc.end)) => toKey(loc.cursor) \in DOMAIN loc.billsPlanByMonth
  /\ ForecastOK =>
       /\ \A i \in 1..Len(loc.debugRows) : loc.debugRows[i].key \in DOMAIN loc.billsPlanByMonth
       /\ Cardinality(DOMAIN loc.billsPlanByMonth) = Len(loc.debugRows)
  /\ SummaryOK =>
       /\ loc.key \in DOMAIN loc.billsPlanByMonth
       /\ Cardinality(DOMAIN loc.billsPlanByMonth) = 1

\* a forecast of two months and a summary, each with a bill in the store, whose
\* plan lookups returned the planned amount
C26_Witness ==
  \/ /\ ForecastOK
     /\ Len(loc.debugRows) = 2
     /\ \A i \in 1..2 : loc.debugRows[i].plannedBills = 800
  \/ /\ SummaryOK
     /\ loc.plannedBillsCents = 800

(***************************************************************************)
(* C27: the savings_cents reported for a month M does not depend on the    *)
(* requested start: for two requests with starts S1 <= S2 <= M, both at or *)
(* after the as_of_date month and with the same store and current month,   *)
(* the savings_cents of M is the same.                                     *)
(***************************************************************************)
\* the month the kept request asked to start at
KeptRequestedMi == IF call.param = Absent THEN call.nowAtStart ELSE MonthIndexOfKey(call.param)

C27_SavingsIndependentOfStart ==
  ( /\ ForecastOK
    /\ KeptForecast
    /\ call.userId = req.userId
    /\ call.bills = BillsOf(req.userId)
    /\ AsOfMi <= KeptRequestedMi
    /\ KeptRequestedMi <= RequestedMi
    /\ \A i \in 1..Len(call.rows), j \in 1..Len(loc.debugRows) : call.rows[i].now = loc.debugRows[j].now )
  => \A i \in 1..Len(call.body), j \in 1..Len(res.body) :
       (call.body[i].month_key = res.body[j].month_key)
          => (call.body[i].savings_cents = res.body[j].savings_cents)

(***************************************************************************)
(* C28: the forecast and summary results of a user depend only on that     *)
(* user's own rows: no sequence of operations by another user (creating or *)
(* deleting bills, income, transactions, changing Assumptions) changes any *)
(* value of this user's forecast or summary.  Two answered requests of one *)
(* user with the same parameter, the same clock readings and the same own  *)
(* rows have the same body, whatever the other user has done in between.   *)
(***************************************************************************)
\* the rows of user u in the store s, and the rows of everybody else
OwnRows(s, u) == [t \in 1..4 |-> {r \in s[t] : r.user_id = u}]
OtherRows(s, u) == [t \in 1..4 |-> {r \in s[t] : r.user_id # u}]

C28_OtherUsersDoNotMatter ==
  ( /\ pc = "done"
    /\ res.status = 200
    /\ call # NoCall
    /\ call.route = req.route
    /\ call.userId = req.userId
    /\ call.param = CurrentParam
    /\ NowsOf(call.rows) = CurrentNows
    /\ OwnRows(call.store, req.userId) = OwnRows(store, req.userId) )
  => res.body = call.body

\* two forecasts of two months of u1 with the same body; before the first u2
\* held nothing, before the second u2 has put Assumptions and created a transaction
C28_Witness ==
  /\ ForecastOK
  /\ KeptForecast
  /\ call.userId = req.userId
  /\ Len(res.body) = 2
  /\ res.body = call.body
  /\ OtherRows(call.store, req.userId) = <<{}, {}, {}, {}>>
  /\ OtherRows(store, req.userId)[1] # {}
  /\ OtherRows(store, req.userId)[4] # {}

(***************************************************************************)
(* C29: monthRange(s) accepts exactly the strings of form YYYY-MM with     *)
(* month 01..12 and returns start = first day of that month at 00:00 UTC   *)
(* and end = first day of the following month, so that a date belongs to   *)
(* the range exactly when it lies in that month; any other string raises a *)
(* status-400 error, and GET /api/summary, /api/income and                 *)
(* /api/transactions then answer 400 without reading the store.            *)
(***************************************************************************)
\* days at the edges of months, and a day of March of the year 50
RangeSampleDates ==
  {D(2027, 10, 31), D(2027, 11, 1), D(2027, 11, 30), D(2027, 12, 1), D(2027, 12, 31), D(2028, 1, 1),
   D(1950, 3, 15), [mi |-> 50 * 12 + 2, day |-> 15, sec |-> 0]}

C29_MonthRangeStrict ==
  /\ ("arg" \in DOMAIN call) =>
       IF WellFormedMonthKey(call.arg)
       THEN /\ ~call.ret.throws
            /\ call.ret.start = [mi |-> MonthIndexOfKey(call.arg), day |-> 1, sec |-> 0]
            /\ call.ret.end = [mi |-> MonthIndexOfKey(call.arg) + 1, day |-> 1, sec |-> 0]
            /\ \A d \in RangeSampleDates :
                 (DateLE(call.ret.start, d) /\ DateLT(d, call.ret.end)) <=> (d.mi = MonthIndexOfKey(call.arg))
       ELSE call.ret.throws /\ call.ret.status = 400
  /\ (pc = "done" /\ req.route \in {"summary", "income", "transactions"} /\ ~WellFormedMonthKey(req.month))
       => (res.status = 400 /\ hist.reads = 0)
  /\ (pc = "done" /\ req.route \in {"income", "transactions"} /\ res.status = 200)
       => \A i \in 1..Len(res.body) : res.body[i].date.mi = MonthIndexOfKey(req.month)

(***************************************************************************)
(* C30: DELETE /api/bills/:id, /api/income/:id and /api/transactions/:id   *)
(* remove at most the one row with that id and only if it is owned by the  *)
(* authenticated user; when the id does not exist or belongs to another    *)
(* user the response is 404 and the store is unchanged.                    *)
(***************************************************************************)
\* the position of the route's table in the store
DeleteTableOf(route) ==
  CASE route = "DELETE /api/bills/:id" -> 2
    [] route = "DELETE /api/income/:id" -> 3
    [] route = "DELETE /api/transactions/:id" -> 4

====
